---- MODULE Spec2Model ----
(***************************************************************************)
(* The updater (backup - fetch - clean - apply - restore - install -       *)
(* finalize) of src/unnamed/part_000, over a small file system.            *)
(*                                                                         *)
(* A path is a sequence of names relative to process.cwd(); the file       *)
(* system maps every path of a finite universe to a node: absent, a        *)
(* directory, or a file with a content.  Every step of main() is a plan of *)
(* primitive file operations computed as the step's code walks its source  *)
(* tree; the operations run one at a time, each may fail (an I/O error)    *)
(* and the operator may interrupt between or during any of them.           *)
(***************************************************************************)
EXTENDS Integers, Sequences, FiniteSets, TLC

VARIABLES fs, pc, plan, completedSteps, log, countdown, timer, failedStep,
          cloneErr, diag, discardFailed, report, outcome, exitCode,
          orig, fsAtBackup, fsAtRaise, rt, promise, interval, spin, child,
          filesCopied, fsAtApply

\* The launcher (src/unnamed/part_001): main()'s position, the existence of
\* the three prerequisite paths, the prerequisites met so far, every bot
\* process spawned, the module-level handle, the pending restart timers, the
\* launcher's exit status and whether a signal has reached it.
VARIABLES launcherPc, present, prereq, bots, botProcess, restartTimers,
          launcherExit, signalled

botVars == <<launcherPc, present, prereq, bots, botProcess, restartTimers,
             launcherExit, signalled>>

\* The configurator (src/dados/config.js): main()'s position, whether argv
\* holds --install, the config object, the content of config.json, the line
\* last read, the number of questions asked, what the environment has shown
\* so far, the configurator's exit status and config.json as it was found.
VARIABLES configPc, installArg, config, configJson, entry, asked, observed,
          configExit, configJson0

cfgVars == <<configPc, installArg, config, configJson, entry, asked, observed,
             configExit, configJson0>>

\* The launcher and the configurator before they are run.
LauncherIdle ==
  /\ launcherPc = "off" /\ present = {} /\ prereq = <<>> /\ bots = <<>>
  /\ botProcess = 0 /\ restartTimers = <<>> /\ launcherExit = "none"
  /\ signalled = FALSE

ConfiguratorIdle ==
  /\ configPc = "off" /\ installArg = FALSE /\ config = <<>>
  /\ configJson = [state |-> "absent", value |-> <<>>]
  /\ configJson0 = configJson
  /\ entry = <<>> /\ asked = 0 /\ observed = {} /\ configExit = "none"

vars == <<fs, pc, plan, completedSteps, log, countdown, timer, failedStep,
          cloneErr, diag, discardFailed, report, outcome, exitCode,
          orig, fsAtBackup, fsAtRaise, rt, promise, interval, spin, child,
          filesCopied, fsAtApply, botVars, cfgVars>>

\* Number of distinct contents a user file can start with.
MaxContent == 2

\* let countdown = 5 in confirmUpdate.
CountdownStart == 5

\* steps.length of main().
TotalSteps == 9

\* spinner.length in downloadUpdate and installDependencies.
SpinnerLen == 10

----------------------------------------------------------------------------
(* Paths *)

BK == "backup_ts"
TMP == "temp_richbess"

BACKUP_DIR == <<BK>>
TEMP_DIR == <<TMP>>

DADOS == <<"dados">>
DB_DIR == <<"dados", "database">>
SRC_DIR == <<"dados", "src">>
MIDIAS_DIR == <<"dados", "midias">>
CONFIG_FILE == <<"dados", "src", "config.json">>
DB_JSON == <<"dados", "database", "db.json">>
UPDATE_SAVE == <<"dados", "database", "updateSave.json">>
GRUPOS_DIR == <<"dados", "database", "grupos">>
G_JSON == <<"dados", "database", "grupos", "g.json">>
CONNECT_JS == <<"dados", "src", "connect.js">>
A_PNG == <<"dados", "midias", "a.png">>
EXTRA_TXT == <<"dados", "extra.txt">>

\* The paths of the working directory the model follows.
RelPaths ==
  { <<".git">>, <<".github">>, <<".npm">>, <<"node_modules">>,
    <<"package.json">>, <<"package-lock.json">>, <<"README.md">>, <<"old.js">>,
    DADOS, EXTRA_TXT, DB_DIR, DB_JSON, DB_JSON \o <<"x">>, UPDATE_SAVE,
    GRUPOS_DIR, G_JSON, SRC_DIR, CONFIG_FILE, CONNECT_JS, MIDIAS_DIR, A_PNG }

InBackup(p) == BACKUP_DIR \o p
InTemp(p) == TEMP_DIR \o p

\* The snapshot directory of an earlier run: BACKUP_DIR as that run computed
\* it, at another timestamp.
OLD_BK == "backup_earlier"
OLD_BACKUP_DIR == <<OLD_BK>>
OldSnapPaths ==
  {OLD_BACKUP_DIR, OLD_BACKUP_DIR \o DADOS, OLD_BACKUP_DIR \o DB_DIR,
   OLD_BACKUP_DIR \o DB_JSON}

AllPaths ==
  RelPaths \cup {BACKUP_DIR, TEMP_DIR} \cup OldSnapPaths
           \cup {InBackup(p) : p \in {q \in RelPaths : q[1] = "dados"}}
           \cup {InTemp(p) : p \in RelPaths}

IsPrefix(a, b) == Len(a) <= Len(b) /\ SubSeq(b, 1, Len(a)) = a
Parent(p) == SubSeq(p, 1, Len(p) - 1)
Base(p) == p[Len(p)]

----------------------------------------------------------------------------
(* The name of BACKUP_DIR: a string is a sequence of characters *)

DigitChars == <<"0", "1", "2", "3", "4", "5", "6", "7", "8", "9">>
Digit(k) == DigitChars[k + 1]
Pad2(n) == <<Digit(n \div 10), Digit(n % 10)>>
Pad3(n) == <<Digit(n \div 100), Digit((n \div 10) % 10), Digit(n % 10)>>

\* The instants a run can start at: day, hour, minute, second, millisecond.
Timestamps ==
  [d : {1, 11}, h : {1, 11}, m : {1, 11}, s : {1, 11}, ms : {1, 11, 111}]

\* Date.prototype.toISOString: YYYY-MM-DDTHH:mm:ss.sssZ.
ToISOString(t) ==
  <<"2", "0", "2", "6", "-", "1", "1", "-">> \o Pad2(t.d) \o <<"T">>
    \o Pad2(t.h) \o <<":">> \o Pad2(t.m) \o <<":">> \o Pad2(t.s)
    \o <<".">> \o Pad3(t.ms) \o <<"Z">>

\* str.replace(/[abc]/g, by)
ReplaceAll(str, chars, by) ==
  [i \in DOMAIN str |-> IF str[i] \in chars THEN by ELSE str[i]]

\* str.replace(/c/, by): the first occurrence only.
ReplaceFirst(str, c, by) ==
  IF \E i \in DOMAIN str : str[i] = c
  THEN LET k == CHOOSE i \in DOMAIN str :
                  str[i] = c /\ \A j \in 1..(i - 1) : str[j] # c
       IN [str EXCEPT ![k] = by]
  ELSE str

\* `backup_${new Date().toISOString().replace(/[:.]/g, '_').replace(/T/, '_')}`
BackupName(t) ==
  <<"b", "a", "c", "k", "u", "p", "_">>
    \o ReplaceFirst(ReplaceAll(ToISOString(t), {":", "."}, "_"), "T", "_")

\* The three configured user-data paths.
IsUserPath(p) == IsPrefix(DB_DIR, p) \/ IsPrefix(MIDIAS_DIR, p) \/ p = CONFIG_FILE
UserPaths == {p \in RelPaths : IsUserPath(p)}

----------------------------------------------------------------------------
(* Nodes *)

None == <<"none", "", 0>>
Dir == <<"dir", "", 0>>
File(origin, n) == <<"file", origin, n>>

Exists(f, p) == f[p][1] # "none"
IsDir(f, p) == f[p][1] = "dir"
IsFile(f, p) == f[p][1] = "file"
\* The working directory itself always is a directory.
DirOK(f, p) == p = <<>> \/ IsDir(f, p)

RECURSIVE SetToSeq(_)
SetToSeq(S) ==
  IF S = {} THEN <<>>
  ELSE LET x == CHOOSE y \in S : TRUE IN <<x>> \o SetToSeq(S \ {x})

\* fs.readdir(d): the entries of d, in a fixed order.
Readdir(f, d) ==
  SetToSeq({p \in AllPaths : Len(p) = Len(d) + 1 /\ IsPrefix(d, p) /\ Exists(f, p)})

----------------------------------------------------------------------------
(* Primitive file operations: each yields [ok, fs] *)

Op(name, s, d) == [op |-> name, src |-> s, dst |-> d]
FsOps == {"mkdirp", "ensureDir", "readdir", "copyFile", "rm", "unlink", "unlinkIfExists"}

Prefixes(p) == {SubSeq(p, 1, k) : k \in 1..Len(p)}

\* fs.mkdir(p, {recursive: true})
MkdirP(f, p) ==
  IF \E q \in Prefixes(p) : IsFile(f, q)
  THEN [ok |-> FALSE, fs |-> f]
  ELSE [ok |-> TRUE,
        fs |-> [q \in AllPaths |-> IF q \in Prefixes(p) THEN Dir ELSE f[q]]]

\* fs.copyFile(s, d)
CopyFile(f, s, d) ==
  IF IsFile(f, s) /\ ~IsDir(f, d) /\ DirOK(f, Parent(d))
  THEN [ok |-> TRUE, fs |-> [f EXCEPT ![d] = f[s]]]
  ELSE [ok |-> FALSE, fs |-> f]

\* fs.rm(p, {recursive: true, force: true}) and rmdir /s /q
RmTree(f, p) ==
  [ok |-> TRUE, fs |-> [q \in AllPaths |-> IF IsPrefix(p, q) THEN None ELSE f[q]]]

\* fs.unlink(p)
Unlink(f, p) ==
  IF IsFile(f, p)
  THEN [ok |-> TRUE, fs |-> [f EXCEPT ![p] = None]]
  ELSE [ok |-> FALSE, fs |-> f]

Apply(f, o) ==
  CASE o.op = "mkdirp" -> MkdirP(f, o.dst)
    [] o.op = "ensureDir" ->
         IF Exists(f, o.dst) THEN [ok |-> TRUE, fs |-> f] ELSE MkdirP(f, o.dst)
    [] o.op = "readdir" -> [ok |-> IsDir(f, o.src), fs |-> f]
    [] o.op = "copyFile" -> CopyFile(f, o.src, o.dst)
    [] o.op = "rm" -> RmTree(f, o.dst)
    [] o.op = "unlink" -> Unlink(f, o.dst)
    [] o.op = "unlinkIfExists" ->
         IF Exists(f, o.dst) THEN Unlink(f, o.dst) ELSE [ok |-> TRUE, fs |-> f]
    [] OTHER -> [ok |-> FALSE, fs |-> f]

\* What an operation that is cut short (an I/O error, the process killed)
\* can leave behind.
PartialEffects(f, o) ==
  {f} \cup
  CASE o.op = "copyFile" ->
         IF CopyFile(f, o.src, o.dst).ok
         THEN {[f EXCEPT ![o.dst] = File("partial", 0)]} ELSE {}
    [] o.op = "rm" ->
         {[q \in AllPaths |->
             IF IsPrefix(o.dst, q) /\ IsFile(f, q) THEN None ELSE f[q]]}
    [] o.op = "mkdirp" ->
         IF MkdirP(f, o.dst).ok THEN {MkdirP(f, SubSeq(o.dst, 1, 1)).fs} ELSE {}
    [] OTHER -> {}

RECURSIVE RunPlan(_, _)
\* A plan run to its end, stopping at the first operation that fails.
RunPlan(f, ops) ==
  IF ops = <<>> THEN [ok |-> TRUE, fs |-> f]
  ELSE LET r == Apply(f, Head(ops))
       IN IF r.ok THEN RunPlan(r.fs, Tail(ops)) ELSE r

----------------------------------------------------------------------------
(* The plans of the steps *)

RECURSIVE ShallowEntries(_, _, _)
ShallowEntries(f, files, destination) ==
  IF files = <<>> THEN <<>>
  ELSE (IF IsDir(f, Head(files)) THEN <<>>
        ELSE <<Op("copyFile", Head(files), destination \o <<Base(Head(files))>>)>>)
       \o ShallowEntries(f, Tail(files), destination)
\* A copy that skips the subdirectories of its source.
copyDirectoryShallow(f, source, destination) ==
  <<Op("ensureDir", source, destination), Op("readdir", source, source)>>
    \o ShallowEntries(f, Readdir(f, source), destination)

RECURSIVE copyDirectoryAsync(_, _, _), CopyEntries(_, _, _)
copyDirectoryAsync(f, source, destination) ==
  <<Op("ensureDir", source, destination), Op("readdir", source, source)>>
    \o CopyEntries(f, Readdir(f, source), destination)
\* The for-loop of copyDirectoryAsync (and of applyUpdate) over readdir's result.
CopyEntries(f, files, destination) ==
  IF files = <<>> THEN <<>>
  ELSE LET sourcePath == Head(files)
           destPath == destination \o <<Base(sourcePath)>>
       IN (IF IsDir(f, sourcePath)
           THEN copyDirectoryAsync(f, sourcePath, destPath)
           ELSE <<Op("copyFile", sourcePath, destPath)>>)
          \o CopyEntries(f, Tail(files), destination)

checkRequirements == <<Op("checkGit", <<>>, <<>>), Op("checkNpm", <<>>, <<>>)>>

confirmUpdate == <<Op("countdown", <<>>, <<>>)>>

\* createBackup without the copy of the configuration file.
createBackupNoConfig(f) ==
  <<Op("mkdirp", <<>>, InBackup(DB_DIR)),
    Op("mkdirp", <<>>, InBackup(SRC_DIR)),
    Op("mkdirp", <<>>, InBackup(MIDIAS_DIR))>>
  \o (IF Exists(f, DB_DIR)
      THEN copyDirectoryAsync(f, DB_DIR, InBackup(DB_DIR)) ELSE <<>>)
  \o (IF Exists(f, MIDIAS_DIR)
      THEN copyDirectoryAsync(f, MIDIAS_DIR, InBackup(MIDIAS_DIR)) ELSE <<>>)

\* A snapshot that copies the three paths without testing that they exist.
createBackupNoChecks(f) ==
  <<Op("mkdirp", <<>>, InBackup(DB_DIR)),
    Op("mkdirp", <<>>, InBackup(SRC_DIR)),
    Op("mkdirp", <<>>, InBackup(MIDIAS_DIR))>>
  \o copyDirectoryAsync(f, DB_DIR, InBackup(DB_DIR))
  \o <<Op("copyFile", CONFIG_FILE, InBackup(CONFIG_FILE))>>
  \o copyDirectoryAsync(f, MIDIAS_DIR, InBackup(MIDIAS_DIR))

createBackup(f) ==
  <<Op("mkdirp", <<>>, InBackup(DB_DIR)),
    Op("mkdirp", <<>>, InBackup(SRC_DIR)),
    Op("mkdirp", <<>>, InBackup(MIDIAS_DIR))>>
  \o (IF Exists(f, DB_DIR)
      THEN copyDirectoryAsync(f, DB_DIR, InBackup(DB_DIR)) ELSE <<>>)
  \o (IF Exists(f, CONFIG_FILE)
      THEN <<Op("copyFile", CONFIG_FILE, InBackup(CONFIG_FILE))>> ELSE <<>>)
  \o (IF Exists(f, MIDIAS_DIR)
      THEN copyDirectoryAsync(f, MIDIAS_DIR, InBackup(MIDIAS_DIR)) ELSE <<>>)

\* A download that leaves the fetched README.md in the staging tree.
downloadUpdateKeepReadme(f) ==
  (IF Exists(f, TEMP_DIR) THEN <<Op("rm", <<>>, TEMP_DIR)>> ELSE <<>>)
  \o <<Op("clone", <<>>, TEMP_DIR)>>

downloadUpdate(f) ==
  (IF Exists(f, TEMP_DIR) THEN <<Op("rm", <<>>, TEMP_DIR)>> ELSE <<>>)
  \o <<Op("clone", <<>>, TEMP_DIR),
       Op("unlinkIfExists", <<>>, InTemp(<<"README.md">>))>>

\* A removal list that also names the snapshot directory.
itemsToDeleteWithBackup ==
  << [path |-> <<".git">>, type |-> "dir"],
     [path |-> <<".github">>, type |-> "dir"],
     [path |-> <<".npm">>, type |-> "dir"],
     [path |-> <<"node_modules">>, type |-> "dir"],
     [path |-> <<"package.json">>, type |-> "file"],
     [path |-> <<"package-lock.json">>, type |-> "file"],
     [path |-> <<"README.md">>, type |-> "file"],
     [path |-> BACKUP_DIR, type |-> "dir"] >>

itemsToDelete ==
  << [path |-> <<".git">>, type |-> "dir"],
     [path |-> <<".github">>, type |-> "dir"],
     [path |-> <<".npm">>, type |-> "dir"],
     [path |-> <<"node_modules">>, type |-> "dir"],
     [path |-> <<"package.json">>, type |-> "file"],
     [path |-> <<"package-lock.json">>, type |-> "file"],
     [path |-> <<"README.md">>, type |-> "file"] >>

RECURSIVE DeleteItemsDirsOnly(_, _)
\* A loop over itemsToDelete that removes the directories and skips the files.
DeleteItemsDirsOnly(f, items) ==
  IF items = <<>> THEN <<>>
  ELSE LET item == Head(items)
       IN (IF Exists(f, item.path) /\ item.type = "dir"
           THEN <<Op("rm", <<>>, item.path)>>
           ELSE <<>>)
          \o DeleteItemsDirsOnly(f, Tail(items))

RECURSIVE DeleteItems(_, _)
\* The for-loop of cleanOldFiles over itemsToDelete.
DeleteItems(f, items) ==
  IF items = <<>> THEN <<>>
  ELSE LET item == Head(items)
       IN (IF Exists(f, item.path)
           THEN <<Op(IF item.type = "dir" THEN "rm" ELSE "unlink", <<>>, item.path)>>
           ELSE <<>>)
          \o DeleteItems(f, Tail(items))

RECURSIVE CleanEntriesDirsOnly(_, _, _)
\* A cleaning loop that removes the sub-directories and keeps the plain files.
CleanEntriesDirsOnly(f, files, excludeDir) ==
  IF files = <<>> THEN <<>>
  ELSE LET filePath == Head(files)
       IN (IF filePath = excludeDir \/ ~IsDir(f, filePath) THEN <<>>
           ELSE <<Op("rm", <<>>, filePath)>>)
          \o CleanEntriesDirsOnly(f, Tail(files), excludeDir)

RECURSIVE CleanEntries(_, _, _)
\* The for-loop of cleanDirectoryAsync.
CleanEntries(f, files, excludeDir) ==
  IF files = <<>> THEN <<>>
  ELSE LET filePath == Head(files)
       IN (IF filePath = excludeDir THEN <<>>
           ELSE <<Op(IF IsDir(f, filePath) THEN "rm" ELSE "unlink", <<>>, filePath)>>)
          \o CleanEntries(f, Tail(files), excludeDir)

cleanDirectoryDirsOnly(f, directory, excludeDir) ==
  <<Op("readdir", directory, directory)>>
    \o CleanEntriesDirsOnly(f, Readdir(f, directory), excludeDir)

cleanDirectoryAsync(f, directory, excludeDir) ==
  <<Op("readdir", directory, directory)>>
    \o CleanEntries(f, Readdir(f, directory), excludeDir)

\* A clean that removes the listed artefacts and leaves dados alone.
cleanOldFilesListOnly(f) ==
  DeleteItems(f, itemsToDelete)

cleanOldFiles(f) ==
  DeleteItems(f, itemsToDelete)
  \o (IF Exists(f, DADOS) THEN cleanDirectoryAsync(f, DADOS, BACKUP_DIR) ELSE <<>>)

RECURSIVE ApplyEntries(_, _)
\* The for-loop of applyUpdate: every entry of TEMP_DIR is copied to the
\* working directory, then filesCopied++.
ApplyEntries(f, tempFiles) ==
  IF tempFiles = <<>> THEN <<>>
  ELSE LET sourcePath == Head(tempFiles)
           destPath == <<Base(sourcePath)>>
       IN (IF IsDir(f, sourcePath)
           THEN copyDirectoryAsync(f, sourcePath, destPath)
           ELSE <<Op("copyFile", sourcePath, destPath)>>)
          \o <<Op("copied", sourcePath, destPath)>>
          \o ApplyEntries(f, Tail(tempFiles))

\* An apply that leaves the staging directory behind.
applyUpdateKeepStaging(f) ==
  <<Op("readdir", TEMP_DIR, TEMP_DIR)>>
  \o (IF IsDir(f, TEMP_DIR) THEN ApplyEntries(f, Readdir(f, TEMP_DIR)) ELSE <<>>)

applyUpdate(f) ==
  <<Op("readdir", TEMP_DIR, TEMP_DIR)>>
  \o (IF IsDir(f, TEMP_DIR)
      THEN ApplyEntries(f, Readdir(f, TEMP_DIR)) \o <<Op("rm", <<>>, TEMP_DIR)>>
      ELSE <<>>)

restoreBackup(f) ==
  <<Op("mkdirp", <<>>, DB_DIR),
    Op("mkdirp", <<>>, SRC_DIR),
    Op("mkdirp", <<>>, MIDIAS_DIR)>>
  \o (IF Exists(f, InBackup(DB_DIR))
      THEN copyDirectoryAsync(f, InBackup(DB_DIR), DB_DIR) ELSE <<>>)
  \o (IF Exists(f, InBackup(CONFIG_FILE))
      THEN <<Op("copyFile", InBackup(CONFIG_FILE), CONFIG_FILE)>> ELSE <<>>)
  \o (IF Exists(f, InBackup(MIDIAS_DIR))
      THEN copyDirectoryAsync(f, InBackup(MIDIAS_DIR), MIDIAS_DIR) ELSE <<>>)

installDependencies == <<Op("npm", <<>>, <<>>)>>

\* A cleanup that removes every snapshot directory it finds.
cleanupEverySnapshot(f) ==
  (IF Exists(f, BACKUP_DIR) THEN <<Op("rm", <<>>, BACKUP_DIR)>> ELSE <<>>)
  \o (IF Exists(f, OLD_BACKUP_DIR) THEN <<Op("rm", <<>>, OLD_BACKUP_DIR)>> ELSE <<>>)

cleanup(f) ==
  IF Exists(f, BACKUP_DIR) THEN <<Op("rm", <<>>, BACKUP_DIR)>> ELSE <<>>

\* A steps array with the snapshot taken before the confirmation.
stepsBackupFirst(k, f) ==
  CASE k = 1 -> checkRequirements
    [] k = 2 -> createBackup(f)
    [] k = 3 -> confirmUpdate
    [] k = 4 -> downloadUpdate(f)
    [] k = 5 -> cleanOldFiles(f)
    [] k = 6 -> applyUpdate(f)
    [] k = 7 -> restoreBackup(f)
    [] k = 8 -> installDependencies
    [] k = 9 -> cleanup(f)

\* A steps array with restore before apply.
stepsRestoreFirst(k, f) ==
  CASE k = 1 -> checkRequirements
    [] k = 2 -> confirmUpdate
    [] k = 3 -> createBackup(f)
    [] k = 4 -> downloadUpdate(f)
    [] k = 5 -> cleanOldFiles(f)
    [] k = 6 -> restoreBackup(f)
    [] k = 7 -> applyUpdate(f)
    [] k = 8 -> installDependencies
    [] k = 9 -> cleanup(f)

\* The steps array of main(), by index.
steps(k, f) ==
  CASE k = 1 -> checkRequirements
    [] k = 2 -> confirmUpdate
    [] k = 3 -> createBackup(f)
    [] k = 4 -> downloadUpdate(f)
    [] k = 5 -> cleanOldFiles(f)
    [] k = 6 -> applyUpdate(f)
    [] k = 7 -> restoreBackup(f)
    [] k = 8 -> installDependencies
    [] k = 9 -> cleanup(f)

----------------------------------------------------------------------------
(* The trees a run starts from, and the trees a clone can fetch *)

MkTree(E) ==
  [p \in AllPaths |->
     IF \E e \in E : e[1] = p THEN (CHOOSE e \in E : e[1] = p)[2] ELSE None]

DbEntries(db, c) ==
  CASE db = "absent" -> {}
    [] db = "empty" -> {<<DB_DIR, Dir>>}
    [] db = "full" ->
         { <<DB_DIR, Dir>>, <<DB_JSON, File("user", c)>>,
           <<UPDATE_SAVE, File("meta", 1)>>,
           <<GRUPOS_DIR, Dir>>, <<G_JSON, File("grupo", 1)>> }

CfgEntries(cfg, c) ==
  CASE cfg = "absent" -> {}
    [] cfg = "nofile" -> {<<SRC_DIR, Dir>>, <<CONNECT_JS, File("old", 0)>>}
    [] cfg = "present" ->
         { <<SRC_DIR, Dir>>, <<CONNECT_JS, File("old", 0)>>,
           <<CONFIG_FILE, File("user", c)>> }

MidEntries(mid) ==
  IF mid THEN {<<MIDIAS_DIR, Dir>>, <<A_PNG, File("midia", 1)>>} ELSE {}

\* A previous installation: the artefacts cleanOldFiles lists, an application
\* file the new version no longer has, and a file of dados outside the three
\* configured paths.
ArtEntries(art) ==
  IF art
  THEN { <<<<".git">>, Dir>>, <<<<".github">>, Dir>>, <<<<".npm">>, Dir>>,
         <<<<"node_modules">>, Dir>>, <<<<"package.json">>, File("old", 0)>>,
         <<<<"package-lock.json">>, File("old", 0)>>,
         <<<<"README.md">>, File("old", 0)>>, <<<<"old.js">>, File("old", 0)>>,
         <<EXTRA_TXT, File("extra", 1)>> }
  ELSE {}

\* What an earlier failed or interrupted run left behind: its staging
\* directory and its snapshot.
LeftEntries(left) ==
  IF left
  THEN {<<TEMP_DIR, Dir>>, <<InTemp(<<"old.js">>), File("stale", 0)>>,
        <<OLD_BACKUP_DIR, Dir>>, <<OLD_BACKUP_DIR \o DADOS, Dir>>,
        <<OLD_BACKUP_DIR \o DB_DIR, Dir>>,
        <<OLD_BACKUP_DIR \o DB_JSON, File("earlier", 0)>>}
  ELSE {}

InitialTree(db, c1, cfg, c2, mid, art, left) ==
  LET E == DbEntries(db, c1) \cup CfgEntries(cfg, c2) \cup MidEntries(mid)
             \cup ArtEntries(art) \cup LeftEntries(left)
  IN MkTree(E \cup (IF \E e \in E : e[1][1] = "dados" THEN {<<DADOS, Dir>>} ELSE {}))

InitialTrees ==
  { InitialTree(db, c1, cfg, c2, mid, art, left) :
      db \in {"absent", "empty", "full"}, c1 \in 1..MaxContent,
      cfg \in {"absent", "nofile", "present"}, c2 \in 1..MaxContent,
      mid \in BOOLEAN, art \in BOOLEAN, left \in BOOLEAN }

FetchedVariants == {"plain", "withData", "conflict"}

\* What the repository holds: the application, and possibly files at the
\* user-data paths (as files, or as a directory where the user has a file).
RepoEntries(v) ==
  { <<<<".git">>, Dir>>, <<<<"package.json">>, File("repo", 0)>>,
    <<<<"README.md">>, File("repo", 0)>>, <<DADOS, Dir>>, <<SRC_DIR, Dir>>,
    <<CONNECT_JS, File("repo", 0)>> }
  \cup
  CASE v = "plain" -> {}
    [] v = "withData" ->
         { <<DB_DIR, Dir>>, <<DB_JSON, File("repo", 0)>>,
           <<CONFIG_FILE, File("repo", 0)>>,
           <<MIDIAS_DIR, Dir>>, <<A_PNG, File("repo", 0)>>,
           <<<<"old.js">>, File("repo", 0)>> }
    [] v = "conflict" ->
         { <<DB_DIR, Dir>>, <<DB_JSON, Dir>>,
           <<DB_JSON \o <<"x">>, File("repo", 0)>> }

\* git clone --depth 1 REPO_URL TEMP_DIR, succeeding.
Cloned(f, v) ==
  [p \in AllPaths |->
     IF p = TEMP_DIR THEN Dir
     ELSE IF IsPrefix(TEMP_DIR, p)
          THEN MkTree({<<InTemp(e[1]), e[2]>> : e \in RepoEntries(v)})[p]
          ELSE f[p]]

\* npm run config:install, succeeding: the package installer's own files.
Installed(f) ==
  [f EXCEPT ![<<"node_modules">>] = Dir,
            ![<<"package-lock.json">>] = File("npm", 0)]

----------------------------------------------------------------------------
(* main(): the step loop, its catch, and the post-workflow metadata call *)

CurStep == log[Len(log)]
InFlight == pc = "step" /\ plan # <<>>

Init ==
  /\ fs \in InitialTrees
  /\ orig = fs /\ fsAtBackup = fs /\ fsAtRaise = fs
  /\ pc = "loop" /\ plan = <<>> /\ completedSteps = 0 /\ log = <<>>
  /\ countdown = CountdownStart /\ timer = FALSE /\ failedStep = 0
  /\ cloneErr = FALSE /\ diag = "none" /\ discardFailed = FALSE
  /\ report = "none" /\ outcome = "running" /\ exitCode = 0 /\ rt = "off"
  /\ promise = "none" /\ interval = FALSE /\ spin = 0 /\ child = "none"
  /\ filesCopied = 0 /\ fsAtApply = fs
  /\ LauncherIdle /\ ConfiguratorIdle

\* A loop that calls the next step without awaiting the one in flight.
StartStepNoAwait ==
  /\ pc \in {"loop", "step"} /\ Len(log) < TotalSteps
  /\ LET k == Len(log) + 1
     IN /\ log' = Append(log, k)
        /\ plan' = steps(k, fs)
        /\ timer' = (k = 2)
        /\ countdown' = IF k = 2 THEN CountdownStart ELSE countdown
        /\ filesCopied' = IF k = 6 THEN 0 ELSE filesCopied
        /\ fsAtApply' = IF k = 6 THEN fs ELSE fsAtApply
  /\ pc' = "step"
  /\ UNCHANGED <<fs, completedSteps, failedStep, cloneErr, diag, discardFailed,
                 report, outcome, exitCode, orig, fsAtBackup, fsAtRaise, rt,
                 promise, interval, spin, child,
                 botVars, cfgVars>>

\* for (const step of steps) { await step.func(); ...: the next step is called.
StartStep ==
  /\ pc = "loop" /\ completedSteps < TotalSteps
  /\ LET k == completedSteps + 1
     IN /\ log' = Append(log, k)
        /\ plan' = steps(k, fs)
        /\ timer' = (k = 2)
        /\ countdown' = IF k = 2 THEN CountdownStart ELSE countdown
        /\ filesCopied' = IF k = 6 THEN 0 ELSE filesCopied
        /\ fsAtApply' = IF k = 6 THEN fs ELSE fsAtApply
  /\ pc' = "step"
  /\ UNCHANGED <<fs, completedSteps, failedStep, cloneErr, diag, discardFailed,
                 report, outcome, exitCode, orig, fsAtBackup, fsAtRaise, rt,
                 promise, interval, spin, child,
                 botVars, cfgVars>>

\* A step's catch that prints the failure and does not throw it again.
ThrownNotRethrown(g) ==
  /\ fs' = g /\ plan' = <<>>
  /\ failedStep' = CurStep /\ fsAtRaise' = g
  /\ UNCHANGED <<pc, completedSteps, log, countdown, timer, cloneErr, diag,
                 discardFailed, report, outcome, exitCode, orig, fsAtBackup, rt,
                 promise, interval, spin, child, filesCopied, fsAtApply,
                 botVars, cfgVars>>

\* A step's catch that ends the process itself, as checkRequirements does.
ThrownExits(g) ==
  /\ fs' = g /\ plan' = <<>> /\ pc' = "done"
  /\ failedStep' = CurStep /\ fsAtRaise' = g
  /\ outcome' = "aborted" /\ exitCode' = 1
  /\ UNCHANGED <<completedSteps, log, countdown, timer, cloneErr, diag,
                 discardFailed, report, orig, fsAtBackup, rt,
                 promise, interval, spin, child, filesCopied, fsAtApply,
                 botVars, cfgVars>>

\* catch (error) { printWarning(...); throw error; } of a step: main's loop ends.
Thrown(g) ==
  /\ fs' = g /\ plan' = <<>> /\ pc' = "catch"
  /\ failedStep' = CurStep /\ fsAtRaise' = g
  /\ UNCHANGED <<completedSteps, log, countdown, timer, cloneErr, diag,
                 discardFailed, report, outcome, exitCode, orig, fsAtBackup, rt,
                 promise, interval, spin, child, filesCopied, fsAtApply,
                 botVars, cfgVars>>

\* The catch of downloadUpdate: the reachability probe comes before the throw.
Diagnose(g) ==
  /\ fs' = g /\ plan' = <<>> /\ pc' = "probe"
  /\ UNCHANGED <<completedSteps, log, countdown, timer, failedStep, cloneErr,
                 diag, discardFailed, report, outcome, exitCode, orig,
                 fsAtBackup, fsAtRaise, rt,
                 promise, interval, spin, child, filesCopied, fsAtApply,
                 botVars, cfgVars>>

\* A catch of cleanup that throws the failure again.
SwallowedRethrow(g) ==
  /\ fs' = g /\ plan' = <<>> /\ discardFailed' = TRUE /\ pc' = "catch"
  /\ failedStep' = CurStep /\ fsAtRaise' = g
  /\ UNCHANGED <<completedSteps, log, countdown, timer, cloneErr, diag,
                 report, outcome, exitCode, orig, fsAtBackup, rt,
                 promise, interval, spin, child, filesCopied, fsAtApply,
                 botVars, cfgVars>>

\* The catch of cleanup: the failure is printed and not thrown.
Swallowed(g) ==
  /\ fs' = g /\ plan' = <<>> /\ discardFailed' = TRUE
  /\ UNCHANGED <<pc, completedSteps, log, countdown, timer, failedStep,
                 cloneErr, diag, report, outcome, exitCode, orig, fsAtBackup,
                 fsAtRaise, rt,
                 promise, interval, spin, child, filesCopied, fsAtApply,
                 botVars, cfgVars>>

\* A file operation of the running step fails, leaving g.
Failed(g) ==
  CASE CurStep = 9 -> Swallowed(g)
    [] CurStep = 4 -> Diagnose(g)
    [] OTHER -> Thrown(g)

\* The next file operation of the running step.
DoOp ==
  /\ InFlight /\ Head(plan).op \in FsOps
  /\ LET r == Apply(fs, Head(plan))
     IN IF r.ok
        THEN /\ fs' = r.fs /\ plan' = Tail(plan)
             /\ UNCHANGED <<pc, completedSteps, log, countdown, timer,
                            failedStep, cloneErr, diag, discardFailed, report,
                            outcome, exitCode, orig, fsAtBackup, fsAtRaise, rt,
                 promise, interval, spin, child, filesCopied, fsAtApply,
                 botVars, cfgVars>>
        ELSE Failed(r.fs)

\* filesCopied++ in the loop of applyUpdate.
Copied ==
  /\ InFlight /\ Head(plan).op = "copied"
  /\ filesCopied' = filesCopied + 1 /\ plan' = Tail(plan)
  /\ UNCHANGED <<fs, pc, completedSteps, log, countdown, timer, failedStep,
                 cloneErr, diag, discardFailed, report, outcome, exitCode,
                 orig, fsAtBackup, fsAtRaise, rt, promise, interval, spin,
                 child, fsAtApply,
                 botVars, cfgVars>>

\* The next file operation fails with an I/O error.
FaultOp ==
  /\ InFlight /\ Head(plan).op \in FsOps
  /\ \E g \in PartialEffects(fs, Head(plan)) : Failed(g)

\* execAsync('git --version') / execAsync('npm --version') succeeds.
CheckOk ==
  /\ InFlight /\ Head(plan).op \in {"checkGit", "checkNpm"}
  /\ plan' = Tail(plan)
  /\ UNCHANGED <<fs, pc, completedSteps, log, countdown, timer, failedStep,
                 cloneErr, diag, discardFailed, report, outcome, exitCode,
                 orig, fsAtBackup, fsAtRaise, rt,
                 promise, interval, spin, child, filesCopied, fsAtApply,
                 botVars, cfgVars>>

\* A missing tool that is only warned about: the check goes on.
CheckMissingContinue ==
  /\ InFlight /\ Head(plan).op \in {"checkGit", "checkNpm"}
  /\ plan' = Tail(plan) /\ failedStep' = CurStep
  /\ UNCHANGED <<fs, pc, completedSteps, log, countdown, timer, cloneErr, diag,
                 discardFailed, report, outcome, exitCode, orig, fsAtBackup,
                 fsAtRaise, rt,
                 promise, interval, spin, child, filesCopied, fsAtApply,
                 botVars, cfgVars>>

\* The tool is missing: checkRequirements calls process.exit(1) itself.
CheckMissing ==
  /\ InFlight /\ Head(plan).op \in {"checkGit", "checkNpm"}
  /\ plan' = <<>> /\ pc' = "done" /\ failedStep' = CurStep
  /\ outcome' = "prereq" /\ exitCode' = 1
  /\ UNCHANGED <<fs, completedSteps, log, countdown, timer, cloneErr, diag,
                 discardFailed, report, orig, fsAtBackup, fsAtRaise, rt,
                 promise, interval, spin, child, filesCopied, fsAtApply,
                 botVars, cfgVars>>

\* A countdown that starts over at 0 and never resolves.
TickForever ==
  /\ InFlight /\ Head(plan).op = "countdown" /\ timer
  /\ countdown' = IF countdown = 0 THEN CountdownStart ELSE countdown - 1
  /\ UNCHANGED <<fs, pc, plan, timer, completedSteps, log, failedStep, cloneErr,
                 diag, discardFailed, report, outcome, exitCode, orig,
                 fsAtBackup, fsAtRaise, rt, promise, interval, spin, child, filesCopied, fsAtApply,
                 botVars, cfgVars>>

\* A countdown that resolves as soon as the counter reaches 0.
TickResolveAtZero ==
  /\ InFlight /\ Head(plan).op = "countdown" /\ timer
  /\ countdown' = countdown - 1
  /\ IF countdown - 1 <= 0
     THEN timer' = FALSE /\ plan' = Tail(plan)
     ELSE UNCHANGED <<timer, plan>>
  /\ UNCHANGED <<fs, pc, completedSteps, log, failedStep, cloneErr, diag,
                 discardFailed, report, outcome, exitCode, orig, fsAtBackup,
                 fsAtRaise, rt, promise, interval, spin, child, filesCopied, fsAtApply,
                 botVars, cfgVars>>

\* One tick of confirmUpdate's setInterval callback.
Tick ==
  /\ InFlight /\ Head(plan).op = "countdown" /\ timer
  /\ countdown' = countdown - 1
  /\ IF countdown - 1 < 0
     THEN timer' = FALSE /\ plan' = Tail(plan)
     ELSE UNCHANGED <<timer, plan,
                 promise, interval, spin, child, filesCopied, fsAtApply,
                 botVars, cfgVars>>
  /\ UNCHANGED <<fs, pc, completedSteps, log, failedStep, cloneErr, diag,
                 discardFailed, report, outcome, exitCode, orig, fsAtBackup,
                 fsAtRaise, rt,
                 promise, interval, spin, child, filesCopied, fsAtApply,
                 botVars, cfgVars>>

\* A promise is settled by the first resolve() or reject() that reaches it.
Settle(p, v) == IF p = "pending" THEN v ELSE p

\* (error) => error ? reject(error) : resolve(): the callback given to exec.
ExecCallback(p, error) == Settle(p, IF error THEN "rejected" ELSE "resolved")

\* The 'close' listener: gitProcess's one calls resolve(), npmProcess's does not.
CloseHandler(op, p) == IF op = "clone" THEN Settle(p, "resolved") ELSE p

\* A 'close' event whose listeners run in the other order: first the one the
\* step added, then the callback of exec.
CloseEventHandlerFirst(op, p, error) == ExecCallback(CloseHandler(op, p), error)

\* The 'close' event of the child: exec added its listener, which calls the
\* callback, before it returned the child; the step's listener comes second.
CloseEvent(op, p, error) == CloseHandler(op, ExecCallback(p, error))

AwaitsExec == InFlight /\ Head(plan).op \in {"clone", "npm"}

\* new Promise(...): exec starts the command, setInterval starts the spinner.
ExecStart ==
  /\ AwaitsExec /\ promise = "none"
  /\ promise' = "pending" /\ interval' = TRUE /\ spin' = 0 /\ child' = "running"
  /\ UNCHANGED <<fs, pc, plan, completedSteps, log, countdown, timer,
                 failedStep, cloneErr, diag, discardFailed, report, outcome,
                 exitCode, orig, fsAtBackup, fsAtRaise, rt, filesCopied, fsAtApply,
                 botVars, cfgVars>>

\* One tick of the spinner's setInterval callback: i = (i + 1) % spinner.length.
Spin ==
  /\ interval /\ pc \in {"loop", "step", "probe", "write"}
  /\ spin' = (spin + 1) % SpinnerLen
  /\ UNCHANGED <<fs, pc, plan, completedSteps, log, countdown, timer,
                 failedStep, cloneErr, diag, discardFailed, report, outcome,
                 exitCode, orig, fsAtBackup, fsAtRaise, rt, promise, interval,
                 child, filesCopied, fsAtApply,
                 botVars, cfgVars>>

\* A 'close' event whose listener leaves the spinner's interval running.
ChildClosedNoClear(op, e, g) ==
  /\ AwaitsExec /\ Head(plan).op = op /\ child = "running"
  /\ fs' = g
  /\ promise' = CloseEvent(op, promise, e)
  /\ child' = "closed"
  /\ cloneErr' = (cloneErr \/ (e /\ op = "clone"))
  /\ UNCHANGED <<pc, plan, completedSteps, log, countdown, timer, failedStep,
                 diag, discardFailed, report, outcome, exitCode, orig,
                 fsAtBackup, fsAtRaise, rt, interval, spin, filesCopied, fsAtApply,
                 botVars, cfgVars>>

\* The command has ended and 'close' is emitted; e tells whether it failed
\* and g is the tree it leaves.
ChildClosed(op, e, g) ==
  /\ AwaitsExec /\ Head(plan).op = op /\ child = "running"
  /\ fs' = g
  /\ promise' = CloseEvent(op, promise, e)
  /\ interval' = FALSE /\ spin' = 0 /\ child' = "closed"
  /\ cloneErr' = (cloneErr \/ (e /\ op = "clone"))
  /\ UNCHANGED <<pc, plan, completedSteps, log, countdown, timer, failedStep,
                 diag, discardFailed, report, outcome, exitCode, orig,
                 fsAtBackup, fsAtRaise, rt, filesCopied, fsAtApply,
                 botVars, cfgVars>>

\* git clone ends without error.
CloneOk ==
  /\ AwaitsExec
  /\ \E v \in FetchedVariants : ChildClosed("clone", FALSE, Cloned(fs, v))

\* git clone ends with an error, with or without a directory left behind.
CloneFail ==
  /\ AwaitsExec
  /\ \E g \in {fs, [fs EXCEPT ![TEMP_DIR] = Dir]} : ChildClosed("clone", TRUE, g)

\* The shell of exec cannot be spawned: 'error' is emitted and exec calls the
\* callback with it; 'close' comes later.
SpawnError ==
  /\ AwaitsExec /\ child = "running"
  /\ promise' = ExecCallback(promise, TRUE) /\ child' = "errored"
  /\ cloneErr' = (cloneErr \/ Head(plan).op = "clone")
  /\ UNCHANGED <<fs, pc, plan, completedSteps, log, countdown, timer,
                 failedStep, diag, discardFailed, report, outcome, exitCode,
                 orig, fsAtBackup, fsAtRaise, rt, interval, spin, filesCopied, fsAtApply,
                 botVars, cfgVars>>

\* 'close' after 'error': only the step's listener still has something to do.
LateClose ==
  /\ child = "errored" /\ pc \in {"step", "probe"}
  /\ promise' = CloseHandler(IF CurStep = 4 THEN "clone" ELSE "npm", promise)
  /\ interval' = FALSE /\ spin' = 0 /\ child' = "closedLate"
  /\ UNCHANGED <<fs, pc, plan, completedSteps, log, countdown, timer,
                 failedStep, cloneErr, diag, discardFailed, report, outcome,
                 exitCode, orig, fsAtBackup, fsAtRaise, rt, filesCopied, fsAtApply,
                 botVars, cfgVars>>

\* await of the resolved promise returns: the step goes on.
Resolved ==
  /\ AwaitsExec /\ promise = "resolved"
  /\ plan' = Tail(plan) /\ promise' = "none" /\ child' = "none"
  /\ UNCHANGED <<fs, pc, completedSteps, log, countdown, timer, failedStep,
                 cloneErr, diag, discardFailed, report, outcome, exitCode,
                 orig, fsAtBackup, fsAtRaise, rt, interval, spin, filesCopied, fsAtApply,
                 botVars, cfgVars>>

\* A rejection that the step prints and does not throw: the step goes on.
RejectedIgnored ==
  /\ AwaitsExec /\ promise = "rejected"
  /\ plan' = Tail(plan) /\ failedStep' = CurStep /\ fsAtRaise' = fs
  /\ promise' = "none" /\ child' = "none"
  /\ UNCHANGED <<fs, pc, completedSteps, log, countdown, timer, cloneErr,
                 diag, discardFailed, report, outcome, exitCode, orig,
                 fsAtBackup, rt, interval, spin, filesCopied, fsAtApply,
                 botVars, cfgVars>>

\* await of the rejected promise throws into the step's catch.
Rejected ==
  /\ AwaitsExec /\ promise = "rejected"
  /\ Failed(fs)

\* A catch of downloadUpdate that ends after the probe without throwing.
ProbeNoThrow ==
  /\ pc = "probe"
  /\ \E d \in {"permission", "network-down"} : diag' = d
  /\ pc' = "step"
  /\ UNCHANGED <<fs, plan, completedSteps, log, countdown, timer, cloneErr,
                 failedStep, fsAtRaise, discardFailed, report, outcome,
                 exitCode, orig, fsAtBackup, rt,
                 promise, interval, spin, child, filesCopied, fsAtApply,
                 botVars, cfgVars>>

\* ping github.com, then throw error: the probe's result only picks a message.
Probe ==
  /\ pc = "probe"
  /\ \E d \in {"permission", "network-down"} : diag' = d
  /\ pc' = "catch" /\ failedStep' = CurStep /\ fsAtRaise' = fs
  /\ UNCHANGED <<fs, plan, completedSteps, log, countdown, timer, cloneErr,
                 discardFailed, report, outcome, exitCode, orig, fsAtBackup, rt,
                 promise, interval, spin, child, filesCopied, fsAtApply,
                 botVars, cfgVars>>

\* npm run config:install exits with 0.
NpmOk ==
  /\ AwaitsExec
  /\ ChildClosed("npm", FALSE, Installed(fs))

\* npm run config:install exits with an error.
NpmFail ==
  /\ AwaitsExec
  /\ \E g \in {fs, [fs EXCEPT ![<<"node_modules">>] = Dir]} :
       ChildClosed("npm", TRUE, g)

\* A loop that counts a returned step twice.
StepDoneTwice ==
  /\ pc = "step" /\ plan = <<>>
  /\ completedSteps' = completedSteps + 2
  /\ pc' = "loop"
  /\ fsAtBackup' = IF CurStep = 3 THEN fs ELSE fsAtBackup
  /\ UNCHANGED <<fs, plan, log, countdown, timer, failedStep, cloneErr, diag,
                 discardFailed, report, outcome, exitCode, orig, fsAtRaise, rt,
                 promise, interval, spin, child, filesCopied, fsAtApply,
                 botVars, cfgVars>>

\* step.func() has returned: completedSteps++.
StepDone ==
  /\ pc = "step" /\ plan = <<>>
  /\ completedSteps' = completedSteps + 1
  /\ pc' = "loop"
  /\ fsAtBackup' = IF CurStep = 3 THEN fs ELSE fsAtBackup
  /\ UNCHANGED <<fs, plan, log, countdown, timer, failedStep, cloneErr, diag,
                 discardFailed, report, outcome, exitCode, orig, fsAtRaise, rt,
                 promise, interval, spin, child, filesCopied, fsAtApply,
                 botVars, cfgVars>>

\* A catch of main() that also discards the snapshot.
MainCatchDiscard ==
  /\ pc = "catch"
  /\ fs' = RmTree(fs, BACKUP_DIR).fs
  /\ report' = "failure" /\ outcome' = "aborted" /\ exitCode' = 1
  /\ pc' = "done"
  /\ UNCHANGED <<plan, completedSteps, log, countdown, timer, failedStep,
                 cloneErr, diag, discardFailed, orig, fsAtBackup, fsAtRaise, rt,
                 promise, interval, spin, child, filesCopied, fsAtApply,
                 botVars, cfgVars>>

\* A catch of main() that removes what a failed create-backup has written.
MainCatchRollback ==
  /\ pc = "catch"
  /\ fs' = IF failedStep = 3 THEN RmTree(fs, BACKUP_DIR).fs ELSE fs
  /\ report' = "failure" /\ outcome' = "aborted" /\ exitCode' = 1
  /\ pc' = "done"
  /\ UNCHANGED <<plan, completedSteps, log, countdown, timer, failedStep,
                 cloneErr, diag, discardFailed, orig, fsAtBackup, fsAtRaise, rt,
                 promise, interval, spin, child, filesCopied, fsAtApply,
                 botVars, cfgVars>>

\* The catch of main(): the failure and BACKUP_DIR are printed, process.exit(1).
MainCatch ==
  /\ pc = "catch"
  /\ report' = "failure" /\ outcome' = "aborted" /\ exitCode' = 1
  /\ pc' = "done"
  /\ UNCHANGED <<fs, plan, completedSteps, log, countdown, timer, failedStep,
                 cloneErr, diag, discardFailed, orig, fsAtBackup, fsAtRaise, rt,
                 promise, interval, spin, child, filesCopied, fsAtApply,
                 botVars, cfgVars>>

\* After the loop: fetch(.../commits?per_page=1); a network error or a
\* response that is not ok throws.
FetchCommits ==
  /\ pc = "loop" /\ completedSteps = TotalSteps
  /\ \/ pc' = "write" /\ UNCHANGED fsAtRaise
     \/ pc' = "catch" /\ fsAtRaise' = fs
  /\ UNCHANGED <<fs, plan, completedSteps, log, countdown, timer, failedStep,
                 cloneErr, diag, discardFailed, report, outcome, exitCode,
                 orig, fsAtBackup, rt,
                 promise, interval, spin, child, filesCopied, fsAtApply,
                 botVars, cfgVars>>

\* fs.writeFile(path.join(__dirname, '..', '..', 'database', 'updateSave.json')),
\* then the success summary.  The script's directory decides whether the file
\* is dados/database/updateSave.json (scripts kept three levels below the
\* working directory, as part_001 takes them to be) or lies outside the tree.
WriteUpdateSave ==
  /\ pc = "write"
  /\ \/ /\ \/ /\ IsDir(fs, DB_DIR) /\ ~IsDir(fs, UPDATE_SAVE)
              /\ fs' = [fs EXCEPT ![UPDATE_SAVE] = File("meta", 0)]
           \/ fs' = fs
        /\ report' = "success" /\ outcome' = "completed" /\ exitCode' = 0
        /\ pc' = "done"
        /\ UNCHANGED fsAtRaise
     \/ /\ pc' = "catch" /\ fsAtRaise' = fs
        /\ UNCHANGED <<fs, report, outcome, exitCode,
                 promise, interval, spin, child, filesCopied, fsAtApply,
                 botVars, cfgVars>>
  /\ UNCHANGED <<plan, completedSteps, log, countdown, timer, failedStep,
                 cloneErr, diag, discardFailed, orig, fsAtBackup, rt,
                 promise, interval, spin, child, filesCopied, fsAtApply,
                 botVars, cfgVars>>

\* A shutdown handler that removes the staging and snapshot directories first.
InterruptCleanup ==
  /\ \/ pc = "loop" /\ completedSteps \in {0, TotalSteps}
     \/ InFlight
     \/ pc \in {"probe", "write"}
  /\ fs' = RmTree(RmTree(fs, TEMP_DIR).fs, BACKUP_DIR).fs
  /\ pc' = "done" /\ outcome' = "cancelled" /\ exitCode' = 0
  /\ timer' = FALSE
  /\ UNCHANGED <<plan, completedSteps, log, countdown, failedStep, cloneErr,
                 diag, discardFailed, report, orig, fsAtBackup, fsAtRaise, rt,
                 promise, interval, spin, child, filesCopied, fsAtApply,
                 botVars, cfgVars>>

\* SIGINT / SIGTERM: shutdown() calls process.exit(0) wherever the run awaits;
\* a file operation in flight is cut short.
Interrupt ==
  /\ \/ pc = "loop" /\ completedSteps \in {0, TotalSteps}
     \/ InFlight
     \/ pc \in {"probe", "write"}
  /\ \E g \in (IF InFlight /\ Head(plan).op \in FsOps
               THEN PartialEffects(fs, Head(plan)) ELSE {fs}) : fs' = g
  /\ pc' = "done" /\ outcome' = "cancelled" /\ exitCode' = 0
  /\ timer' = FALSE
  /\ UNCHANGED <<plan, completedSteps, log, countdown, failedStep, cloneErr,
                 diag, discardFailed, report, orig, fsAtBackup, fsAtRaise, rt,
                 promise, interval, spin, child, filesCopied, fsAtApply,
                 botVars, cfgVars>>

Next ==
  \/ StartStep \/ DoOp \/ Copied \/ FaultOp \/ CheckOk \/ CheckMissing \/ Tick
  \/ ExecStart \/ Spin \/ CloneOk \/ CloneFail \/ SpawnError \/ LateClose
  \/ Resolved \/ Rejected \/ Probe \/ NpmOk \/ NpmFail \/ StepDone
  \/ MainCatch \/ FetchCommits \/ WriteUpdateSave \/ Interrupt

Spec == Init /\ [][Next]_vars

\* Every step main() can take once a step is under way or the loop is over:
\* a pending timer fires, a started command ends, a call returns.  The
\* spinner's tick and the operator's interrupt are left out.
Returns ==
  \/ DoOp \/ Copied \/ FaultOp \/ CheckOk \/ CheckMissing \/ Tick
  \/ ExecStart \/ CloneOk \/ CloneFail \/ SpawnError \/ LateClose
  \/ Resolved \/ Rejected \/ Probe \/ NpmOk \/ NpmFail \/ StepDone
  \/ MainCatch \/ FetchCommits \/ WriteUpdateSave

\* StartStep is enabled exactly when the loop has a step left to call.
LoopWaits == pc = "loop" /\ completedSteps < TotalSteps

\* The trees the fair runs start from: database and configuration present or
\* absent, with or without the leftovers of an earlier run.
LiveTrees ==
  { InitialTree(db, 1, cfg, 1, TRUE, TRUE, left) :
      db \in {"absent", "full"}, cfg \in {"absent", "present"}, left \in BOOLEAN }

InitLive == Init /\ fs \in LiveTrees

\* The run when every external operation eventually returns.
\* The loop of main() does not wait forever before it calls the next step:
\* weak fairness of StartStep, written with its enabling condition.
SpecLive ==
  InitLive /\ [][Next]_vars /\ WF_vars(Returns) /\ []<>(~LoopWaits)

----------------------------------------------------------------------------
(* The restore round trip: create, delete the live user data, restore *)

InitRT ==
  /\ fs \in InitialTrees
  /\ orig = fs /\ fsAtBackup = fs /\ fsAtRaise = fs
  /\ pc = "loop" /\ plan = <<>> /\ completedSteps = 0 /\ log = <<>>
  /\ countdown = CountdownStart /\ timer = FALSE /\ failedStep = 0
  /\ cloneErr = FALSE /\ diag = "none" /\ discardFailed = FALSE
  /\ report = "none" /\ outcome = "running" /\ exitCode = 0 /\ rt = "init"
  /\ promise = "none" /\ interval = FALSE /\ spin = 0 /\ child = "none"
  /\ filesCopied = 0 /\ fsAtApply = fs
  /\ LauncherIdle /\ ConfiguratorIdle

\* createBackup(), run to its end.
RTCreate ==
  /\ rt = "init"
  /\ LET r == RunPlan(fs, createBackup(fs))
     IN r.ok /\ fs' = r.fs
  /\ rt' = "created"
  /\ UNCHANGED <<pc, plan, completedSteps, log, countdown, timer, failedStep,
                 cloneErr, diag, discardFailed, report, outcome, exitCode,
                 orig, fsAtBackup, fsAtRaise,
                 promise, interval, spin, child, filesCopied, fsAtApply,
                 botVars, cfgVars>>

\* The scenario's deletion of the three live user-data paths.
RTDelete ==
  /\ rt = "created"
  /\ fs' = [p \in AllPaths |-> IF p \in UserPaths THEN None ELSE fs[p]]
  /\ rt' = "deleted"
  /\ UNCHANGED <<pc, plan, completedSteps, log, countdown, timer, failedStep,
                 cloneErr, diag, discardFailed, report, outcome, exitCode,
                 orig, fsAtBackup, fsAtRaise,
                 promise, interval, spin, child, filesCopied, fsAtApply,
                 botVars, cfgVars>>

\* restoreBackup(), run to its end.
RTRestore ==
  /\ rt = "deleted"
  /\ LET r == RunPlan(fs, restoreBackup(fs))
     IN r.ok /\ fs' = r.fs
  /\ rt' = "restored"
  /\ UNCHANGED <<pc, plan, completedSteps, log, countdown, timer, failedStep,
                 cloneErr, diag, discardFailed, report, outcome, exitCode,
                 orig, fsAtBackup, fsAtRaise,
                 promise, interval, spin, child, filesCopied, fsAtApply,
                 botVars, cfgVars>>

NextRT == RTCreate \/ RTDelete \/ RTRestore

SpecRT == InitRT /\ [][NextRT]_vars

----------------------------------------------------------------------------
(* Views used by the properties *)

LiveView(f) == [p \in RelPaths |-> f[p]]
SnapPaths == {p \in AllPaths : IsPrefix(BACKUP_DIR, p)}
SnapView(f) == [p \in SnapPaths |-> f[p]]
\* The user-data files of a tree.
UserFiles(f) == {p \in UserPaths : IsFile(f, p)}
Invoked(k) == \E i \in DOMAIN log : log[i] = k
Ended == pc = "done"

----------------------------------------------------------------------------
(* Properties *)

\* Where the original content of user file p is to be found.
Kept(p) == fs[p] = orig[p] \/ fs[InBackup(p)] = orig[p]

C2_SequentialAbort ==
  failedStep # 0 =>
    /\ \A i \in DOMAIN log : log[i] <= failedStep
    /\ pc \in {"catch", "done"}
    /\ Ended => exitCode # 0

\* The clean step has failed and the run has ended.
C2_Witness == Ended /\ failedStep = 5 /\ exitCode = 1 /\ log = <<1, 2, 3, 4, 5>>

\* C3: a failure raised by one of the steps create-backup .. install-dependencies
\* ends the run aborted with status 1 and the failure reported; cleanup is never
\* invoked, the snapshot directory is not removed, no step has run twice, and
\* the file system is as the failing step left it.
C3_AbortedKeepsSnapshot ==
  (Ended /\ failedStep \in 3..8) =>
    /\ outcome = "aborted" /\ exitCode = 1 /\ report = "failure"
    /\ ~Invoked(9)
    /\ log = [i \in 1..failedStep |-> i]
    /\ completedSteps = failedStep - 1
    /\ fs = fsAtRaise
    /\ completedSteps >= 3 => Exists(fs, BACKUP_DIR)

\* The restore step has failed after clean and apply have changed the tree.
C3_Witness ==
  /\ Ended /\ failedStep = 7 /\ Exists(fs, BACKUP_DIR)
  /\ LiveView(fs) # LiveView(orig)

\* C4 as stated: when all nine steps have succeeded (the discard included) and
\* the operator has not interrupted, the run ends completed: the snapshot
\* directory is removed, the success summary is reported, the exit code is 0.
C4_AllStepsThenCompleted ==
  (Ended /\ completedSteps = TotalSteps /\ ~discardFailed /\ outcome # "cancelled") =>
    /\ outcome = "completed" /\ report = "success" /\ exitCode = 0
    /\ ~Exists(fs, BACKUP_DIR)

\* C5: the steps are invoked in the order 1..9, each at most once; a step is
\* invoked only from the loop, when every earlier step has returned with
\* success and none is in flight.
C5_FixedOrder ==
  /\ [](/\ log = [i \in 1..Len(log) |-> i]
        /\ Len(log) <= TotalSteps
        /\ Len(log) \in {completedSteps, completedSteps + 1}
        /\ pc = "step" => Len(log) = completedSteps + 1)
  /\ [][log' # log =>
          /\ log' = Append(log, completedSteps + 1)
          /\ pc = "loop" /\ plan = <<>> /\ failedStep = 0
          /\ Len(log) = completedSteps]_vars

\* All nine steps have been invoked and have returned.
C5_Witness == completedSteps = TotalSteps /\ log = <<1, 2, 3, 4, 5, 6, 7, 8, 9>>

\* C6: right after a successful clean step the snapshot directory exists with
\* the contents create-backup gave it, and none of the seven listed artefacts
\* exists at the top level of the live tree.
C6_CleanKeepsSnapshot ==
  (pc = "loop" /\ completedSteps = 5) =>
    /\ Exists(fs, BACKUP_DIR)
    /\ SnapView(fs) = SnapView(fsAtBackup)
    /\ \A i \in DOMAIN itemsToDelete : ~Exists(fs, itemsToDelete[i].path)

\* Clean has succeeded on a tree that had the artefacts and user data.
C6_Witness ==
  /\ pc = "loop" /\ completedSteps = 5
  /\ \A i \in DOMAIN itemsToDelete : Exists(orig, itemsToDelete[i].path)
  /\ IsFile(fs, InBackup(G_JSON)) /\ IsFile(fs, InBackup(CONFIG_FILE))


\* The nine steps are still running or one of them has ended the run: the
\* metadata write that follows the loop has not happened.
WithinSteps == ~(Ended /\ outcome = "completed")

\* C7: from the end of the restore step on, through install-dependencies and
\* cleanup, every file that was under the three user-data paths at snapshot
\* time is in the live tree with its original content, whatever the fetched
\* tree held at those paths; and restore is invoked only after apply returned.
C7_RestoredAfterApply ==
  /\ (completedSteps >= 7 /\ WithinSteps) =>
        \A p \in UserFiles(fsAtBackup) : fs[p] = orig[p]
  /\ Invoked(7) => completedSteps >= 6

\* Restore has returned in a run whose fetched tree held files at the
\* user-data paths: a.png, which the user did not have, is the fetched one.
C7_Witness ==
  /\ completedSteps = 7
  /\ fs[A_PNG] = File("repo", 0) /\ ~Exists(orig, MIDIAS_DIR)
  /\ {DB_JSON, G_JSON, CONFIG_FILE} \subseteq UserFiles(fsAtBackup)
  /\ fs[CONFIG_FILE] = File("user", 1)

\* C8: create-backup, then the removal of the live user-data paths, then
\* restore, give back exactly the user data of a tree that had all three
\* paths: the same files and directories with the same contents, nothing more.
C8_RoundTrip ==
  (rt = "restored" /\ IsDir(orig, DB_DIR) /\ IsFile(orig, CONFIG_FILE)
     /\ IsDir(orig, MIDIAS_DIR)) =>
    \A p \in UserPaths : fs[p] = orig[p]

\* A round trip over a tree with files in all three paths and a subdirectory.
C8_Witness ==
  /\ rt = "restored"
  /\ {DB_JSON, G_JSON, CONFIG_FILE, A_PNG} \subseteq UserFiles(orig)
  /\ fs[G_JSON] = File("grupo", 1)

\* C9: when the download step has failed (the clone ended with an error, or
\* the step raised), clean and apply are never invoked, everything of the live
\* tree outside the staging directory is as before the run, and the snapshot
\* is as create-backup left it.
C9_FetchIsolation ==
  (failedStep = 4 \/ cloneErr) =>
    /\ ~Invoked(5) /\ ~Invoked(6)
    /\ LiveView(fs) = LiveView(orig)
    /\ SnapView(fs) = SnapView(fsAtBackup)

\* The clone has failed in a run that had user data, and the run has ended.
C9_Witness ==
  /\ Ended /\ failedStep = 4 /\ cloneErr /\ exitCode = 1
  /\ IsFile(orig, DB_JSON) /\ IsFile(fs, InBackup(DB_JSON))

\* C10: nothing of the live tree is deleted or overwritten before
\* create-backup has returned; nothing of the snapshot directory is removed
\* except by the cleanup step; and cleanup is invoked only when the eight
\* steps before it, restore and install-dependencies among them, have returned.
C10_SnapshotLifecycle ==
  /\ [](completedSteps < 3 => LiveView(fs) = LiveView(orig))
  /\ [](Invoked(9) => (completedSteps >= 8 /\ failedStep = 0))
  /\ [][(\E p \in SnapPaths : Exists(fs, p) /\ ~Exists(fs', p)) =>
          (pc = "step" /\ CurStep = 9 /\ completedSteps = 8)]_vars

\* Cleanup has removed the snapshot of a run that had user data.
C10_Witness ==
  /\ pc = "step" /\ CurStep = 9 /\ plan = <<>> /\ ~discardFailed
  /\ ~Exists(fs, BACKUP_DIR) /\ IsFile(orig, DB_JSON)


\* The operation a step is awaiting touches only its own target.
TouchedByInFlight(p) ==
  /\ InFlight /\ Head(plan).op \in FsOps
  /\ IsPrefix(Head(plan).dst, p) \/ IsPrefix(p, Head(plan).dst)

\* C11: an interrupt ends the run at once with exit code 0 and no report; no
\* further step is invoked and nothing happens afterwards; the handler removes
\* and restores nothing: the snapshot and staging directories that exist stay,
\* and the only paths that differ are at the target of the operation in flight.
C11_InterruptStops ==
  /\ [](outcome = "cancelled" => (Ended /\ exitCode = 0 /\ report = "none"))
  /\ [][outcome = "cancelled" => UNCHANGED vars]_vars
  /\ [][(outcome # "cancelled" /\ outcome' = "cancelled") =>
          /\ log' = log /\ completedSteps' = completedSteps
          /\ Exists(fs, BACKUP_DIR) => Exists(fs', BACKUP_DIR)
          /\ Exists(fs, TEMP_DIR) => Exists(fs', TEMP_DIR)
          /\ \A p \in AllPaths : fs'[p] # fs[p] => TouchedByInFlight(p)]_vars

\* The run was interrupted during clean, with a snapshot and a staging tree.
C11_Witness ==
  /\ outcome = "cancelled" /\ Ended /\ log = <<1, 2, 3, 4, 5>>
  /\ IsFile(fs, InBackup(DB_JSON)) /\ IsFile(fs, InTemp(CONNECT_JS))

\* C12: an interrupt before the first step, during check-requirements or during
\* the countdown exits with code 0 and leaves the file system as the run found
\* it: no snapshot directory, no staging directory made, nothing changed.
C12_EarlyInterruptNoEffect ==
  (outcome = "cancelled" /\
     (log = <<>> \/ (plan # <<>> /\ Head(plan).op \in {"checkGit", "checkNpm", "countdown"}))) =>
    /\ exitCode = 0 /\ Ended
    /\ fs = orig
    /\ ~Exists(fs, BACKUP_DIR)

\* The operator interrupted the countdown after some ticks.
C12_Witness ==
  /\ outcome = "cancelled" /\ plan # <<>> /\ Head(plan).op = "countdown"
  /\ countdown < CountdownStart /\ IsFile(orig, DB_JSON)

\* C13: when git or npm is missing the run ends inside the first step with
\* status 1; no other step is ever invoked and the file system is untouched.
C13_MissingToolStopsRun ==
  failedStep = 1 =>
    /\ Ended /\ exitCode = 1
    /\ log = <<1>> /\ completedSteps = 0
    /\ fs = orig

\* npm is missing (git was found) on a tree with user data.
C13_Witness ==
  /\ failedStep = 1 /\ Ended /\ outcome = "prereq"
  /\ IsFile(orig, DB_JSON) /\ IsDir(orig, TEMP_DIR)


\* C14 as stated: every failure of a step, the missing tool of step 1 and the
\* failed removal of step 9 included, ends in the catch of main() with the
\* failure report and a non-zero exit code.
C14_EveryFailureCaught ==
  (Ended /\ outcome # "cancelled" /\ (failedStep # 0 \/ discardFailed)) =>
    (report = "failure" /\ exitCode # 0)

\* C14: a failure raised by one of steps 3..8 reaches the catch of main(), which
\* reports it with the snapshot location once and exits with 1; a missing tool
\* ends the run with 1 inside step 1 without that report; a failed removal in
\* step 9 is not raised at all.
C14_RaisedCaughtOnce ==
  /\ [](failedStep \in {0, 1} \cup (3..8))
  /\ [](failedStep \in 3..8 =>
          /\ pc \in {"catch", "done"}
          /\ Ended => (report = "failure" /\ exitCode = 1 /\ outcome = "aborted"))
  /\ [](failedStep = 1 => (Ended /\ report = "none" /\ exitCode = 1))
  /\ [](discardFailed => failedStep = 0)
  /\ [][(report # "failure" /\ report' = "failure") => pc = "catch"]_vars
  /\ [][report = "failure" => UNCHANGED vars]_vars

\* Apply failed half way and the catch of main() reported it.
C14_Witness ==
  /\ Ended /\ failedStep = 6 /\ report = "failure" /\ exitCode = 1
  /\ fs # fsAtBackup

\* C15: when the failure report with the snapshot location is printed, the
\* snapshot directory of this run exists.
C15_ReportedSnapshotExists ==
  report = "failure" => IsDir(fs, BACKUP_DIR)

\* C16: a failure of the commit query or of the metadata write after nine
\* successful steps does not abort the run (no failure report, exit code 0),
\* and the snapshot and staging areas stay as cleanup and apply left them.
C16_PostWorkflowNotTransactional ==
  completedSteps = TotalSteps =>
    /\ outcome # "aborted" /\ report # "failure"
    /\ (Ended /\ outcome # "cancelled") => (exitCode = 0 /\ report = "success")
    /\ ~Exists(fs, TEMP_DIR)
    /\ ~discardFailed => ~Exists(fs, BACKUP_DIR)

\* C17: when the installer fails, cleanup is never invoked, the snapshot stays
\* as it was taken, the run ends aborted with exit code 1, and the live tree
\* holds the fetched application files and the restored user data.
C17_InstallFailureKeepsSnapshot ==
  failedStep = 8 =>
    /\ ~Invoked(9) /\ completedSteps = 7
    /\ IsDir(fs, BACKUP_DIR) /\ SnapView(fs) = SnapView(fsAtBackup)
    /\ Ended => (exitCode = 1 /\ outcome = "aborted" /\ report = "failure")
    /\ fs[CONNECT_JS] = File("repo", 0)
    /\ fs[<<"package.json">>] = File("repo", 0)
    /\ \A p \in UserFiles(orig) : fs[p] = orig[p]

\* The installer failed on a tree that had user data and a configuration file.
C17_Witness ==
  /\ failedStep = 8 /\ Ended
  /\ IsFile(orig, DB_JSON) /\ IsFile(orig, CONFIG_FILE)
  /\ orig[CONNECT_JS] # File("repo", 0)

\* C18: cleanup is invoked only after the eight steps before it have returned;
\* a failure while removing the snapshot is recorded and not raised: the step
\* returns, is counted, and the run goes on to the commit query; the catch of
\* main() is then reached only from the code after the loop.
C18_DiscardFailureSwallowed ==
  /\ [](Invoked(9) => (completedSteps >= 8 /\ failedStep = 0))
  /\ [](discardFailed =>
          /\ failedStep = 0
          /\ pc = "step" => (plan = <<>> /\ completedSteps = 8)
          /\ pc # "step" => completedSteps = TotalSteps)
  /\ [][(~discardFailed /\ discardFailed') =>
          (pc' = "step" /\ plan' = <<>> /\ report' = "none")]_vars

\* The snapshot could not be removed and the run still ended as completed.
C18_Witness ==
  /\ discardFailed /\ Ended /\ outcome = "completed" /\ report = "success"
  /\ Exists(fs, BACKUP_DIR)


\* The three paths createBackup copies.
BackupSources == {DB_DIR, CONFIG_FILE, MIDIAS_DIR}

\* C19 as stated: for each of the three paths that is absent from the live
\* tree, createBackup ends without error and the snapshot has no entry at the
\* place of that path.
C19_AbsentPathNoEntry ==
  /\ rt = "init" => RunPlan(fs, createBackup(fs)).ok
  /\ rt = "created" =>
       \A P \in BackupSources : ~Exists(orig, P) => ~Exists(fs, InBackup(P))

\* C19: for each of the three paths that is absent from the live tree,
\* createBackup ends without error and the snapshot holds no file for it: an
\* absent config.json has no entry, an absent database or midias directory
\* has an empty directory.
C19_AbsentPathNoFile ==
  /\ rt = "init" => RunPlan(fs, createBackup(fs)).ok
  /\ rt = "created" =>
       \A P \in BackupSources : ~Exists(orig, P) =>
         /\ \A p \in AllPaths :
              (IsPrefix(InBackup(P), p) /\ p # InBackup(P)) => ~Exists(fs, p)
         /\ IF P = CONFIG_FILE THEN ~Exists(fs, InBackup(P))
                               ELSE IsDir(fs, InBackup(P))

\* A snapshot taken of a tree without database directory and without
\* configuration file, with media present.
C19_Witness ==
  /\ rt = "created" /\ ~Exists(orig, DB_DIR) /\ ~Exists(orig, CONFIG_FILE)
  /\ IsFile(orig, A_PNG) /\ fs[InBackup(A_PNG)] = orig[A_PNG]
  /\ IsDir(fs, InBackup(DB_DIR))

\* C20: when clean has returned nothing is left inside dados (the snapshot is
\* not among its entries); from then on a file under dados outside the three
\* user-data paths is there only if apply copied it, whole or in part, from
\* the fetched tree: restore does not bring the old one back.
C20_CleanEmptiesDados ==
  /\ (pc = "loop" /\ completedSteps = 5) =>
       \A p \in RelPaths : (IsPrefix(DADOS, p) /\ p # DADOS) => ~Exists(fs, p)
  /\ completedSteps >= 5 =>
       /\ \A p \in RelPaths :
            (IsPrefix(DADOS, p) /\ ~IsUserPath(p) /\ IsFile(fs, p)) =>
              fs[p][2] \in {"repo", "partial"}
       /\ ~Exists(fs, EXTRA_TXT)
       /\ Exists(orig, DADOS) => IsDir(fs, DADOS)

\* Restore has returned: the user data is back, the stray file of dados is not.
C20_Witness ==
  /\ pc = "loop" /\ completedSteps = 7
  /\ IsFile(orig, EXTRA_TXT) /\ ~Exists(fs, EXTRA_TXT)
  /\ IsFile(orig, DB_JSON) /\ fs[DB_JSON] = orig[DB_JSON]


README == <<"README.md">>
OLD_JS == <<"old.js">>

\* C21: when the clone starts there is no staging directory, a leftover of an
\* earlier run included; once apply has returned the staging directory is gone;
\* the fetched top-level README.md is gone from the staging tree when apply
\* starts and never reaches the live tree.
C21_StagingLifecycle ==
  /\ (InFlight /\ Head(plan).op = "clone" /\ child \in {"none", "running"}) =>
       ~Exists(fs, TEMP_DIR)
  /\ completedSteps >= 6 => ~Exists(fs, TEMP_DIR)
  /\ Invoked(6) => ~Exists(fs, InTemp(README))
  /\ fs[README] \notin {File("repo", 0), File("partial", 0)}

\* Apply has returned on a tree that had a leftover staging directory and an
\* old README.md.
C21_Witness ==
  /\ pc = "loop" /\ completedSteps = 6
  /\ IsDir(orig, TEMP_DIR) /\ IsFile(orig, README)
  /\ ~Exists(fs, TEMP_DIR) /\ ~Exists(fs, README)
  /\ fs[<<"package.json">>] = File("repo", 0)

\* A file of the previous version, outside the user data, that is still there.
Stale(p) == ~IsUserPath(p) /\ IsFile(orig, p) /\ fs[p] = orig[p]

\* C22 as stated: after a completed run the live tree outside the user data
\* holds the fetched files and no file of the previous version.
C22_ReplacedWholesale ==
  outcome = "completed" =>
    /\ fs[<<"package.json">>] = File("repo", 0) /\ fs[CONNECT_JS] = File("repo", 0)
    /\ \A p \in RelPaths : ~Stale(p)

\* C22: after a completed run the live tree holds the fetched files; of the
\* previous version nothing is left among the seven listed top-level
\* artefacts nor under dados outside the user data, while a top-level entry
\* that is not in the removal list is still there unless the fetched tree
\* overwrote it.
C22_ListedAndDadosReplaced ==
  outcome = "completed" =>
    /\ fs[<<"package.json">>] = File("repo", 0) /\ fs[CONNECT_JS] = File("repo", 0)
    /\ IsDir(fs, <<".git">>) /\ ~Exists(fs, README)
    /\ \A p \in RelPaths : Stale(p) => p = OLD_JS
    /\ IsFile(orig, OLD_JS) => fs[OLD_JS] \in {orig[OLD_JS], File("repo", 0)}

\* A completed run over a tree of the previous version, old.js still in place.
C22_Witness ==
  /\ outcome = "completed" /\ Stale(OLD_JS)
  /\ IsFile(orig, <<"package.json">>) /\ IsFile(orig, EXTRA_TXT)
  /\ fs[<<"package.json">>] = File("repo", 0)


\* C23: the spinner of download and install only moves its own index: a tick
\* changes nothing else, whenever it falls; the interval runs only while the
\* command of step 4 or 8 has not closed; when the loop is about to start a
\* step the command has ended, its promise is consumed and the interval is
\* cleared, so no tick falls into a later step.
C23_SpinnerCosmetic ==
  /\ [](interval =>
          /\ log # <<>> /\ CurStep \in {4, 8} /\ completedSteps < CurStep
          /\ child \in {"running", "errored"})
  /\ [](pc = "loop" => (~interval /\ promise = "none" /\ child = "none"))
  /\ [][log' # log => (~interval /\ ~interval' /\ child = "none")]_vars
  /\ [][spin' # spin /\ interval /\ interval' =>
          UNCHANGED <<fs, pc, plan, completedSteps, log, countdown, timer,
                      failedStep, cloneErr, diag, discardFailed, report,
                      outcome, exitCode, promise, child, filesCopied, fsAtApply>>]_vars
  /\ [](~interval => spin = 0)

\* The installer is still running after the spinner went round once, and the
\* step before it had its own spinner.
C23_Witness ==
  /\ InFlight /\ Head(plan).op = "npm" /\ interval /\ child = "running"
  /\ spin = SpinnerLen - 1 /\ completedSteps = 7

\* C24: once git clone has ended with an error the promise of the download
\* step is rejected and stays rejected, whether the 'close' listener's
\* resolve() comes right after the callback or later; the step never returns,
\* the probe runs, and the run ends aborted with the clone's failure.
C24_CloneErrorRaised ==
  /\ [](cloneErr =>
          /\ promise = "rejected"
          /\ CurStep = 4 /\ completedSteps = 3
          /\ pc \in {"catch", "done"} /\ outcome # "cancelled" =>
               (failedStep = 4 /\ diag # "none")
          /\ Ended /\ outcome # "cancelled" =>
               (outcome = "aborted" /\ exitCode = 1 /\ report = "failure"))
  /\ [][promise = "rejected" => promise' = "rejected"]_vars

\* The clone failed, 'close' came while the probe was awaited, the probe found
\* the network up, and the run ended aborted.
C24_Witness ==
  /\ cloneErr /\ child = "closedLate" /\ Ended /\ outcome = "aborted"
  /\ diag = "permission" /\ failedStep = 4


\* The immediate entries of the staging tree when apply was invoked.
StagedEntries == Readdir(fsAtApply, TEMP_DIR)

\* C25: when apply has returned, every path the staging tree held is in the
\* live tree with the staging content, every other live path is as it was,
\* filesCopied equals the number of immediate staging entries, and the staging
\* directory is gone; when apply raised before the last entry was counted,
\* the staging tree is whole and every live path holds its old node, the
\* staged node or a cut-short copy of it.
C25_ApplyMerges ==
  /\ (Invoked(6) /\ completedSteps >= 6 /\ CurStep = 6) =>
       /\ \A p \in RelPaths :
            fs[p] = IF Exists(fsAtApply, InTemp(p)) THEN fsAtApply[InTemp(p)]
                                                    ELSE fsAtApply[p]
       /\ filesCopied = Len(StagedEntries)
       /\ ~Exists(fs, TEMP_DIR)
  /\ (failedStep = 6 /\ filesCopied < Len(StagedEntries)) =>
       /\ pc \in {"catch", "done"} /\ completedSteps = 5
       /\ \A p \in RelPaths :
            /\ fs[InTemp(p)] = fsAtApply[InTemp(p)]
            /\ fs[p] \in {fsAtApply[p], fsAtApply[InTemp(p)], File("partial", 0)}
       /\ IsDir(fs, TEMP_DIR)

\* Apply has returned after overwriting a file that clean had left in place.
C25_Witness ==
  /\ pc = "loop" /\ completedSteps = 6 /\ filesCopied = 4
  /\ fsAtApply[OLD_JS] = File("old", 0) /\ fs[OLD_JS] = File("repo", 0)
  /\ fs[CONNECT_JS] = File("repo", 0) /\ ~Exists(fs, TEMP_DIR)


\* C26: when create-backup has raised, the live tree and the staging area are
\* as the run found them, what the step wrote of the snapshot stays as it was
\* at the failure, neither download nor clean nor apply is invoked, and the
\* run ends aborted with exit code 1.
C26_BackupFailureAborts ==
  failedStep = 3 =>
    /\ \A p \in AllPaths \ SnapPaths : fs[p] = orig[p]
    /\ fs = fsAtRaise
    /\ log = <<1, 2, 3>> /\ completedSteps = 2
    /\ pc \in {"catch", "done"}
    /\ Ended => (outcome = "aborted" /\ exitCode = 1 /\ report = "failure")

\* Create-backup failed after the database was copied and before the media.
C26_Witness ==
  /\ failedStep = 3 /\ Ended
  /\ IsFile(orig, DB_JSON) /\ fs[InBackup(DB_JSON)] = orig[DB_JSON]
  /\ IsFile(orig, A_PNG) /\ ~IsFile(fs, InBackup(A_PNG))

\* C28: while confirm is awaited its timer runs with the counter between 5 and
\* 0; every tick lowers the counter by one; the tick that takes it below 0, and
\* no other, clears the timer and resolves the step; create-backup is invoked
\* only after that.
C28_CountdownResolves ==
  /\ []((InFlight /\ Head(plan).op = "countdown") =>
          (timer /\ countdown \in 0..CountdownStart /\ CurStep = 2))
  /\ [](timer => (InFlight /\ Head(plan).op = "countdown"))
  /\ [](Invoked(3) => (countdown = -1 /\ ~timer /\ completedSteps >= 2))
  /\ [][(countdown' # countdown /\ log' = log) =>
          /\ timer /\ countdown' = countdown - 1
          /\ timer' = (countdown' >= 0)
          /\ (plan' = <<>>) = (countdown' < 0)]_vars
  /\ [][(completedSteps = 1 /\ completedSteps' = 2) => countdown = -1]_vars

\* The countdown showed 5 down to 0, resolved, and create-backup has started.
C28_Witness ==
  /\ log = <<1, 2, 3>> /\ InFlight /\ countdown = -1 /\ ~timer
  /\ completedSteps = 2

\* C29: completedSteps starts at 0, stays within 0..9, changes only by the +1
\* of a step that has just returned, counts the invoked steps but the one in
\* progress or failed, and has reached 9 exactly when no step is left to call.
C29_CounterCountsReturnedSteps ==
  /\ [](completedSteps \in 0..TotalSteps)
  /\ [](Len(log) - completedSteps \in {0, 1})
  /\ []((pc = "step" \/ failedStep # 0) => completedSteps = Len(log) - 1)
  /\ []((pc \in {"loop", "write"} \/ report = "success") => completedSteps = Len(log))
  /\ [](failedStep # 0 => completedSteps = failedStep - 1)
  /\ [][completedSteps' # completedSteps =>
          /\ completedSteps' = completedSteps + 1
          /\ pc = "step" /\ plan = <<>> /\ pc' = "loop" /\ log' = log
          /\ failedStep = 0]_vars
  /\ [][log' # log => (completedSteps < TotalSteps /\ completedSteps = Len(log))]_vars
  /\ []((pc = "write" \/ report = "success") => completedSteps = TotalSteps)

\* The loop has ended with all nine steps counted.
C29_Witness ==
  /\ pc = "write" /\ completedSteps = TotalSteps /\ Len(log) = TotalSteps


\* Runs started at different instants compute different snapshot names.
NamesDistinct ==
  \A t1, t2 \in Timestamps : t1 # t2 => BackupName(t1) # BackupName(t2)

\* C30: snapshot names computed at distinct instants differ, and the snapshot
\* directory an earlier run left behind stays exactly as the run found it,
\* through clean, apply and cleanup and to the end of the run, however it ends.
C30_EarlierSnapshotUntouched ==
  /\ NamesDistinct
  /\ BACKUP_DIR # OLD_BACKUP_DIR
  /\ \A p \in OldSnapPaths : fs[p] = orig[p]

\* A completed run that found an earlier run's snapshot: its own snapshot is
\* gone, the earlier one is still there.
C30_Witness ==
  /\ outcome = "completed" /\ ~discardFailed /\ ~Exists(fs, BACKUP_DIR)
  /\ fs[OLD_BACKUP_DIR \o DB_JSON] = File("earlier", 0)
  /\ IsFile(orig, DB_JSON)


\* C27: when every external operation eventually returns, the run ends; it
\* ends once, as completed with exit code 0, as aborted (or stopped by the
\* missing tool) with exit code 1, or as cancelled with exit code 0, and
\* nothing happens after that.
C27_Terminates ==
  /\ <>Ended
  /\ [](Ended =>
          \/ outcome = "completed" /\ exitCode = 0
          \/ outcome \in {"aborted", "prereq"} /\ exitCode = 1
          \/ outcome = "cancelled" /\ exitCode = 0)
  /\ [](~Ended => outcome = "running")
  /\ [][Ended => UNCHANGED vars]_vars

\* A run that went through all nine steps and the metadata write.
C27_Witness ==
  /\ Ended /\ outcome = "completed" /\ exitCode = 0
  /\ fs[UPDATE_SAVE] = File("meta", 0) /\ completedSteps = TotalSteps

----------------------------------------------------------------------------
(* The launcher, src/unnamed/part_001 *)

\* Spawns of the bot a run is followed for.
MaxBots == 4

\* The paths checkPrerequisites tests with existsSync.
CONFIG_PATH == <<"dados", "src", "config.json">>
NODE_MODULES_PATH == <<"node_modules">>
CONNECT_FILE == <<"dados", "src", "connect.js">>

\* The code a 'close' event carries: an exit status, null when a signal
\* ended the process, the negated errno when the spawn failed.
ExitCodes == {"0", "1", "null", "-2"}

\* The updater is not running while the launcher or the configurator is.
UpdaterOff ==
  /\ fs = InitialTree("full", 1, "present", 1, TRUE, TRUE, FALSE)
  /\ orig = fs /\ fsAtBackup = fs /\ fsAtRaise = fs /\ fsAtApply = fs
  /\ pc = "off" /\ plan = <<>> /\ completedSteps = 0 /\ log = <<>>
  /\ countdown = CountdownStart /\ timer = FALSE /\ failedStep = 0
  /\ cloneErr = FALSE /\ diag = "none" /\ discardFailed = FALSE
  /\ report = "none" /\ outcome = "running" /\ exitCode = 0 /\ rt = "off"
  /\ promise = "none" /\ interval = FALSE /\ spin = 0 /\ child = "none"
  /\ filesCopied = 0

updVars == <<fs, pc, plan, completedSteps, log, countdown, timer, failedStep,
             cloneErr, diag, discardFailed, report, outcome, exitCode,
             orig, fsAtBackup, fsAtRaise, rt, promise, interval, spin, child,
             filesCopied, fsAtApply>>

\* The launcher's process is alive: process.exit has not been called.
LauncherAlive == launcherPc # "off" /\ launcherExit = "none"

\* process.exit(status): the process is gone; the timers it leaves pending
\* never fire (RestartTimer needs LauncherAlive).
LauncherExits(status) ==
  /\ launcherExit' = status
  /\ UNCHANGED restartTimers

\* spawn('node', args): the child process object; when the spawn fails the
\* object is returned all the same and its 'error' is emitted later.
Spawned(codeMode, started) ==
  [codeMode |-> codeMode,
   state |-> IF started THEN "running" ELSE "failing",
   code |-> "none", listeners |-> TRUE, killed |-> FALSE]

\* startBot(codeMode): the handle is set to the new child, which gets the
\* 'error' and the 'close' listener.
startBot(bs, codeMode, started) == Append(bs, Spawned(codeMode, started))

\* restartBot(codeMode): setTimeout(..., 1000).
restartBot(timers, codeMode) == Append(timers, codeMode)

\* botProcess.removeAllListeners().
RemoveAllListeners(bs, h) ==
  IF h = 0 THEN bs ELSE [bs EXCEPT ![h].listeners = FALSE]

\* The 'close' listener of startBot.
OnClose(timers, codeMode, code) ==
  IF code # "0" THEN restartBot(timers, codeMode) ELSE timers

\* The 'error' listener of startBot.
OnError(timers, codeMode) == restartBot(timers, codeMode)

\* The listeners of child i run only while they are attached and the
\* launcher is alive.
Listening(i) == LauncherAlive /\ bots[i].listeners

\* The events of a failed spawn are emitted on the next tick, before any
\* timer, signal or child event is handled.
NoTickPending == \A i \in 1..Len(bots) : bots[i].state # "failing"

InitBot ==
  /\ UpdaterOff /\ ConfiguratorIdle
  /\ launcherPc = "header"
  /\ present \in SUBSET {CONFIG_PATH, NODE_MODULES_PATH, CONNECT_FILE}
  /\ prereq = <<>> /\ bots = <<>> /\ botProcess = 0 /\ restartTimers = <<>>
  /\ launcherExit = "none" /\ signalled = FALSE

\* main(): setupGracefulShutdown() and displayHeader().
DisplayHeader ==
  /\ LauncherAlive /\ launcherPc = "header"
  /\ launcherPc' = "config"
  /\ UNCHANGED <<present, prereq, bots, botProcess, restartTimers,
                 launcherExit, signalled, updVars, cfgVars>>

\* checkPrerequisites: config.json is there.
ConfigFound ==
  /\ LauncherAlive /\ launcherPc = "config"
  /\ CONFIG_PATH \in present
  /\ prereq' = Append(prereq, "config.json exists")
  /\ launcherPc' = "modules"
  /\ UNCHANGED <<present, bots, botProcess, restartTimers, launcherExit,
                 signalled, updVars, cfgVars>>

\* checkPrerequisites: config.json is missing, npm run config is spawned.
ConfigSpawn ==
  /\ LauncherAlive /\ launcherPc = "config"
  /\ CONFIG_PATH \notin present
  /\ launcherPc' = "awaitConfig"
  /\ UNCHANGED <<present, prereq, bots, botProcess, restartTimers,
                 launcherExit, signalled, updVars, cfgVars>>

\* What a command that has run may have left on disk.
Left(paths) == { present \cup made : made \in SUBSET paths }

\* configProcess 'close' with code 0: resolve().
ConfigOk ==
  /\ LauncherAlive /\ launcherPc = "awaitConfig"
  /\ present' \in Left({CONFIG_PATH, NODE_MODULES_PATH})
  /\ prereq' = Append(prereq, "config exited 0")
  /\ launcherPc' = "modules"
  /\ UNCHANGED <<bots, botProcess, restartTimers, launcherExit, signalled,
                 updVars, cfgVars>>

\* A catch of the configuration failure that only prints it.
ConfigFailedContinue ==
  /\ LauncherAlive /\ launcherPc = "awaitConfig"
  /\ \E code \in (ExitCodes \ {"0"}) \cup {"error"} :
       prereq' = Append(prereq, "config failed")
  /\ present' \in Left({CONFIG_PATH})
  /\ launcherPc' = "modules"
  /\ UNCHANGED <<bots, botProcess, restartTimers, launcherExit, signalled,
                 updVars, cfgVars>>

\* configProcess 'close' with another code, or 'error': reject, and the
\* catch calls process.exit(1).
ConfigFailed ==
  /\ LauncherAlive /\ launcherPc = "awaitConfig"
  /\ \E code \in (ExitCodes \ {"0"}) \cup {"error"} :
       prereq' = Append(prereq, "config failed")
  /\ present' \in Left({CONFIG_PATH})
  /\ launcherPc' = "exited"
  /\ LauncherExits("1")
  /\ UNCHANGED <<bots, botProcess, signalled, updVars, cfgVars>>

\* checkPrerequisites: node_modules is there.
ModulesFound ==
  /\ LauncherAlive /\ launcherPc = "modules"
  /\ NODE_MODULES_PATH \in present
  /\ prereq' = Append(prereq, "node_modules exists")
  /\ launcherPc' = "connect"
  /\ UNCHANGED <<present, bots, botProcess, restartTimers, launcherExit,
                 signalled, updVars, cfgVars>>

\* checkPrerequisites: node_modules is missing, npm run config:install is
\* spawned.
InstallSpawn ==
  /\ LauncherAlive /\ launcherPc = "modules"
  /\ NODE_MODULES_PATH \notin present
  /\ launcherPc' = "awaitInstall"
  /\ UNCHANGED <<present, prereq, bots, botProcess, restartTimers,
                 launcherExit, signalled, updVars, cfgVars>>

\* installProcess 'close' with code 0: resolve().
InstallOk ==
  /\ LauncherAlive /\ launcherPc = "awaitInstall"
  /\ present' \in Left({NODE_MODULES_PATH})
  /\ prereq' = Append(prereq, "install exited 0")
  /\ launcherPc' = "connect"
  /\ UNCHANGED <<bots, botProcess, restartTimers, launcherExit, signalled,
                 updVars, cfgVars>>

\* installProcess 'close' with another code, or 'error': reject, and the
\* catch calls process.exit(1).
InstallFailed ==
  /\ LauncherAlive /\ launcherPc = "awaitInstall"
  /\ \E code \in (ExitCodes \ {"0"}) \cup {"error"} :
       prereq' = Append(prereq, "install failed")
  /\ present' \in Left({NODE_MODULES_PATH})
  /\ launcherPc' = "exited"
  /\ LauncherExits("1")
  /\ UNCHANGED <<bots, botProcess, signalled, updVars, cfgVars>>

\* checkPrerequisites: connect.js is there.
ConnectFound ==
  /\ LauncherAlive /\ launcherPc = "connect"
  /\ CONNECT_FILE \in present
  /\ prereq' = Append(prereq, "connect.js exists")
  /\ launcherPc' = "autostart"
  /\ UNCHANGED <<present, bots, botProcess, restartTimers, launcherExit,
                 signalled, updVars, cfgVars>>

\* checkPrerequisites: connect.js is missing, process.exit(1).
ConnectMissing ==
  /\ LauncherAlive /\ launcherPc = "connect"
  /\ CONNECT_FILE \notin present
  /\ prereq' = Append(prereq, "connect.js missing")
  /\ launcherPc' = "exited"
  /\ LauncherExits("1")
  /\ UNCHANGED <<present, bots, botProcess, signalled, updVars, cfgVars>>

\* setupTermuxAutostart: returns at once off Termux, and catches every error
\* on it.
SetupTermuxAutostart ==
  /\ LauncherAlive /\ launcherPc = "autostart"
  /\ launcherPc' = "autoconnect"
  /\ UNCHANGED <<present, prereq, bots, botProcess, restartTimers,
                 launcherExit, signalled, updVars, cfgVars>>

\* checkAutoConnect returned true: startBot(false).
AutoConnect ==
  /\ LauncherAlive /\ launcherPc = "autoconnect"
  /\ \E started \in BOOLEAN : bots' = startBot(bots, FALSE, started)
  /\ botProcess' = Len(bots) + 1
  /\ launcherPc' = "supervise"
  /\ UNCHANGED <<present, prereq, restartTimers, launcherExit, signalled,
                 updVars, cfgVars>>

\* checkAutoConnect returned false (no directory, at most two files, or an
\* error): promptConnectionMethod.
NoSession ==
  /\ LauncherAlive /\ launcherPc = "autoconnect"
  /\ launcherPc' = "prompt"
  /\ UNCHANGED <<present, prereq, bots, botProcess, restartTimers,
                 launcherExit, signalled, updVars, cfgVars>>

\* The answers to promptConnectionMethod, trimmed.
Answers == {"1", "2", "3", "", "9"}

\* promptConnectionMethod: '1' and anything unknown give QR, '2' the
\* pairing code; then startBot(method === 'code').
ChooseMethod ==
  /\ LauncherAlive /\ launcherPc = "prompt"
  /\ \E answer \in Answers \ {"3"}, started \in BOOLEAN :
       bots' = startBot(bots, answer = "2", started)
  /\ botProcess' = Len(bots) + 1
  /\ launcherPc' = "supervise"
  /\ UNCHANGED <<present, prereq, restartTimers, launcherExit, signalled,
                 updVars, cfgVars>>

\* promptConnectionMethod: '3', process.exit(0).
ChooseExit ==
  /\ LauncherAlive /\ launcherPc = "prompt"
  /\ launcherPc' = "exited"
  /\ LauncherExits("0")
  /\ UNCHANGED <<present, prereq, bots, botProcess, signalled, updVars,
                 cfgVars>>

\* A child whose spawn failed emits 'error' and no 'close'.
BotError ==
  /\ \E i \in 1..Len(bots) :
       /\ bots[i].state = "failing"
       /\ bots' = [bots EXCEPT ![i].state = "closed", ![i].code = "error"]
       /\ IF Listening(i)
          THEN restartTimers' = OnError(restartTimers, bots[i].codeMode)
          ELSE UNCHANGED restartTimers
  /\ UNCHANGED <<launcherPc, present, prereq, botProcess, launcherExit,
                 signalled, updVars, cfgVars>>

\* A child whose spawn failed emits 'error' and then, in the same turn,
\* 'close' with the negated errno.
BotErrorClose ==
  /\ \E i \in 1..Len(bots) :
       /\ bots[i].state = "failing"
       /\ bots' = [bots EXCEPT ![i].state = "closed", ![i].code = "-2"]
       /\ IF Listening(i)
          THEN restartTimers' =
                 OnClose(OnError(restartTimers, bots[i].codeMode),
                         bots[i].codeMode, "-2")
          ELSE UNCHANGED restartTimers
  /\ UNCHANGED <<launcherPc, present, prereq, botProcess, launcherExit,
                 signalled, updVars, cfgVars>>

\* A running child ends: 'close' with its exit status, or null after a
\* signal.
BotClose ==
  /\ NoTickPending
  /\ \E i \in 1..Len(bots), code \in {"0", "1", "null"} :
       /\ bots[i].state = "running"
       /\ bots[i].killed => code = "null"
       /\ bots' = [bots EXCEPT ![i].state = "closed", ![i].code = code]
       /\ IF Listening(i)
          THEN restartTimers' = OnClose(restartTimers, bots[i].codeMode, code)
          ELSE UNCHANGED restartTimers
  /\ UNCHANGED <<launcherPc, present, prereq, botProcess, launcherExit,
                 signalled, updVars, cfgVars>>

\* The callback restartBot gave to setTimeout.
RestartTimer ==
  /\ LauncherAlive /\ NoTickPending
  /\ restartTimers # <<>> /\ Len(bots) < MaxBots
  /\ \E started \in BOOLEAN :
       bots' = startBot(RemoveAllListeners(bots, botProcess),
                        Head(restartTimers), started)
  /\ botProcess' = Len(bots) + 1
  /\ restartTimers' = Tail(restartTimers)
  /\ UNCHANGED <<launcherPc, present, prereq, launcherExit, signalled,
                 updVars, cfgVars>>

\* botProcess.kill(): the signal is sent when the child is still there.
Kill(bs, h) ==
  IF h # 0 /\ bs[h].state = "running" THEN [bs EXCEPT ![h].killed = TRUE]
  ELSE bs

\* A shutdown handler that kills the bot and lets the launcher live.
ShutdownNoExit ==
  /\ LauncherAlive /\ NoTickPending /\ ~signalled
  /\ signalled' = TRUE
  /\ bots' = Kill(RemoveAllListeners(bots, botProcess), botProcess)
  /\ UNCHANGED <<launcherPc, present, prereq, botProcess, restartTimers,
                 launcherExit, updVars, cfgVars>>

\* SIGINT or SIGTERM: shutdown().
Shutdown ==
  /\ LauncherAlive /\ NoTickPending
  /\ signalled' = TRUE
  /\ bots' = Kill(RemoveAllListeners(bots, botProcess), botProcess)
  /\ launcherPc' = "exited"
  /\ LauncherExits("0")
  /\ UNCHANGED <<present, prereq, botProcess, updVars, cfgVars>>

NextBot ==
  \/ DisplayHeader \/ ConfigFound \/ ConfigSpawn \/ ConfigOk \/ ConfigFailed
  \/ ModulesFound \/ InstallSpawn \/ InstallOk \/ InstallFailed
  \/ ConnectFound \/ ConnectMissing \/ SetupTermuxAutostart
  \/ AutoConnect \/ NoSession \/ ChooseMethod \/ ChooseExit
  \/ BotError \/ BotErrorClose \/ BotClose \/ RestartTimer \/ Shutdown

SpecBot == InitBot /\ [][NextBot]_vars

----------------------------------------------------------------------------
(* The launcher's restarts *)

\* The bot processes that are running.
RunningBots == { i \in 1..Len(bots) : bots[i].state = "running" }

\* Child i ends in this step, with the launcher alive to see it.
BotEnds(i) ==
  /\ LauncherAlive
  /\ bots[i].state # "closed" /\ bots'[i].state = "closed"

\* C31: while no shutdown has been requested, every bot process that fails
\* to start or closes with a code other than 0 gets a restart scheduled in
\* its own connection mode, a bot process that closes with code 0 gets none,
\* and every bot started by a restart has the mode of the first one.
C31_FailedBotRestarted ==
  [][/\ \A i \in 1..Len(bots) :
          BotEnds(i) =>
            IF bots'[i].code = "0"
            THEN restartTimers' = restartTimers
            ELSE /\ Len(restartTimers') > Len(restartTimers)
                 /\ restartTimers'[Len(restartTimers')] = bots[i].codeMode
     /\ (bots # <<>> /\ Len(bots') > Len(bots))
          => bots'[Len(bots')].codeMode = bots[1].codeMode]_vars

\* C32: the end of one bot process schedules at most one restart, at most
\* one bot process is running at any time, and the handle refers to it.
C32_OneRestartOneBot ==
  /\ [][\A i \in 1..Len(bots) :
          BotEnds(i) => Len(restartTimers') <= Len(restartTimers) + 1]_vars
  /\ [](/\ Cardinality(RunningBots) <= 1
        /\ \A i \in RunningBots : botProcess = i)

----------------------------------------------------------------------------
(* The launcher's shutdown and prerequisites *)

\* C33: the step in which a signal reaches the launcher removes the
\* listeners of the process the handle refers to, kills it when it is
\* running and exits with code 0; from then on the launcher has exited with
\* code 0 and no bot process is started, pending restart timers or not.
C33_ShutdownStopsRestarts ==
  /\ [][(signalled' /\ ~signalled) =>
          /\ launcherExit' = "0"
          /\ Len(bots') = Len(bots)
          /\ botProcess # 0 =>
               /\ ~bots'[botProcess].listeners
               /\ bots[botProcess].state = "running"
                    => bots'[botProcess].killed]_vars
  /\ [][signalled => Len(bots') = Len(bots)]_vars
  /\ [](signalled => launcherExit = "0")

\* A signal has reached the launcher while a restart was pending.
C33_Witness ==
  /\ signalled /\ launcherExit = "0"
  /\ restartTimers # <<>>
  /\ botProcess # 0 /\ ~bots[botProcess].listeners

\* The entries of prereq that stand for a failed prerequisite.
PrereqFailures == {"config failed", "install failed", "connect.js missing"}

\* C34: a bot process exists only after the three prerequisites were met in
\* the order configuration, modules, connection file (each path found, or
\* its command exited with 0); once a command has failed or connect.js is
\* missing the launcher has exited with status 1 and no bot process exists.
C34_PrerequisitesBeforeBot ==
  /\ bots # <<>> =>
       /\ Len(prereq) = 3
       /\ prereq[1] \in {"config.json exists", "config exited 0"}
       /\ prereq[2] \in {"node_modules exists", "install exited 0"}
       /\ prereq[3] = "connect.js exists"
       /\ prereq[1] = "config.json exists" => CONFIG_PATH \in present
       /\ prereq[2] = "node_modules exists" => NODE_MODULES_PATH \in present
       /\ CONNECT_FILE \in present
  /\ (\E k \in 1..Len(prereq) : prereq[k] \in PrereqFailures) =>
       /\ launcherExit = "1"
       /\ bots = <<>>

\* The bot runs after both commands had to be run.
C34_Witness ==
  /\ RunningBots # {}
  /\ prereq = <<"config exited 0", "install exited 0", "connect.js exists">>

----------------------------------------------------------------------------
(* The configurator, src/dados/config.js *)

\* Answers after which an invalid one is no longer followed.
MaxAsked == 5

\* A JSON value of config.json or of the config object: a string with its
\* characters, or a number with the characters of String(number).
Str(s) == [kind |-> "string", text |-> s]
Num(s) == [kind |-> "number", text |-> s]

\* n times the character c.
Rep(c, n) == [i \in 1..n |-> c]

WhiteSpace == {" ", "\t"}

RECURSIVE TrimStart(_)
TrimStart(s) ==
  IF s # <<>> /\ Head(s) \in WhiteSpace THEN TrimStart(Tail(s)) ELSE s

RECURSIVE TrimEnd(_)
TrimEnd(s) ==
  IF s # <<>> /\ s[Len(s)] \in WhiteSpace
  THEN TrimEnd(SubSeq(s, 1, Len(s) - 1)) ELSE s

\* String.prototype.trim.
Trim(s) == TrimEnd(TrimStart(s))

\* A value || picks its right operand for: the empty string and the number 0.
Falsy(v) ==
  \/ v.kind = "string" /\ v.text = <<>>
  \/ v.kind = "number" /\ v.text = <<"0">>

\* input.trim() || defaultValue.
OrDefault(input, defaultValue) ==
  IF Falsy(Str(Trim(input))) THEN defaultValue ELSE Str(Trim(input))

\* /^[0-9]{10,15}$/.test(input): the argument is converted with String().
AllDigits(s) ==
  \A i \in 1..Len(s) : \E k \in 1..Len(DigitChars) : s[i] = DigitChars[k]

TestNumero(v) == Len(v.text) >= 10 /\ Len(v.text) <= 15 /\ AllDigits(v.text)

\* input.length: the number of characters of a string, undefined for a
\* number.
HasLength(v, n) == v.kind = "string" /\ Len(v.text) = n

\* A pattern without its anchors: ten digits anywhere in the text.
validateInputUnanchored(input, field) ==
  CASE field = "prefixo" -> HasLength(input, 1)
    [] field = "numero" ->
         \E a \in 1..Len(input.text) :
           /\ a + 9 <= Len(input.text)
           /\ AllDigits(SubSeq(input.text, a, a + 9))
    [] OTHER -> TRUE

\* validateInput(input, field).
validateInput(input, field) ==
  CASE field = "prefixo" -> HasLength(input, 1)
    [] field = "numero" -> TestNumero(input)
    [] OTHER -> TRUE

\* The keys main() asks for, in order, with the field promptInput validates
\* them as ("null": no validation).
Keys == <<"nomedono", "numerodono", "nomebot", "prefixo">>

FieldOf(key) ==
  CASE key = "numerodono" -> "numero"
    [] key = "prefixo" -> "prefixo"
    [] OTHER -> "null"

\* What main() does after the question for key has resolved.
AfterKey(key) ==
  CASE key = "nomedono" -> "numerodono"
    [] key = "numerodono" -> "nomebot"
    [] key = "nomebot" -> "prefixo"
    [] key = "prefixo" -> "write"

\* defaultConfig of main().
defaultConfig ==
  [nomedono |-> Str(<<>>), numerodono |-> Str(<<>>), nomebot |-> Str(<<>>),
   prefixo |-> Str(<<"!">>), aviso |-> FALSE, debug |-> FALSE,
   enablePanel |-> FALSE]

\* { ...a, ...b }.
Spread(a, b) ==
  [k \in DOMAIN a \cup DOMAIN b |-> IF k \in DOMAIN b THEN b[k] ELSE a[k]]

\* The lines the operator types at a question.
Lines ==
  { <<>>, <<" ">>, <<"!">>, <<"a", "b">>,
    Rep("5", 9), Rep("5", 15), Rep("5", 16),
    Rep("5", 10) \o <<"a">>, <<" ">> \o Rep("7", 10) \o <<" ">> }

\* The objects a config.json found at start parses to.
ExistingConfigs ==
  { [nomedono |-> Str(<<"a", "b">>), numerodono |-> Str(Rep("5", 10)),
     nomebot |-> Str(<<"a">>), prefixo |-> Str(<<"!">>)],
    [numerodono |-> Str(<<"1", "2", "3">>), prefixo |-> Str(<<"a", "b">>)],
    [numerodono |-> Num(Rep("5", 10)), prefixo |-> Num(<<"5">>)],
    [numerodono |-> Num(<<"0">>), nomebot |-> Str(<<"a">>)] }

\* config.json when the configurator starts: missing, not JSON, or an object.
ConfigFiles ==
  { [state |-> "absent", value |-> <<>>],
    [state |-> "corrupt", value |-> <<>>] }
  \cup { [state |-> "json", value |-> c] : c \in ExistingConfigs }

ConfiguratorAlive == configPc # "off" /\ configExit = "none"

InitCfg ==
  /\ UpdaterOff /\ LauncherIdle
  /\ configPc = "start" /\ installArg \in BOOLEAN
  /\ config = defaultConfig
  /\ configJson \in ConfigFiles /\ configJson0 = configJson
  /\ entry = <<>> /\ asked = 0 /\ observed = {} /\ configExit = "none"

\* main(): setupGracefulShutdown(), and displayHeader() without --install.
ConfigStart ==
  /\ ConfiguratorAlive /\ configPc = "start"
  /\ configPc' = "node"
  /\ UNCHANGED <<installArg, config, configJson, entry, asked, observed,
                 configExit, configJson0, updVars, botVars>>

\* checkSystemRequirements: node --version answers.
NodeFound ==
  /\ ConfiguratorAlive /\ configPc = "node"
  /\ observed' = observed \cup {"node found"}
  /\ configPc' = "npm"
  /\ UNCHANGED <<installArg, config, configJson, entry, asked, configExit,
                 configJson0, updVars, botVars>>

\* checkSystemRequirements: node --version fails, process.exit(1).
NodeMissing ==
  /\ ConfiguratorAlive /\ configPc = "node"
  /\ observed' = observed \cup {"node missing"}
  /\ configPc' = "exited" /\ configExit' = "1"
  /\ UNCHANGED <<installArg, config, configJson, entry, asked, configJson0,
                 updVars, botVars>>

\* checkSystemRequirements: npm --version answers; then installDependencies
\* with --install, the config object and the questions without.
NpmFound ==
  /\ ConfiguratorAlive /\ configPc = "npm"
  /\ observed' = observed \cup {"npm found"}
  /\ configPc' = IF installArg THEN "npm install" ELSE "load"
  /\ UNCHANGED <<installArg, config, configJson, entry, asked, configExit,
                 configJson0, updVars, botVars>>

\* checkSystemRequirements: npm --version fails, process.exit(1).
NpmMissing ==
  /\ ConfiguratorAlive /\ configPc = "npm"
  /\ observed' = observed \cup {"npm missing"}
  /\ configPc' = "exited" /\ configExit' = "1"
  /\ UNCHANGED <<installArg, config, configJson, entry, asked, configJson0,
                 updVars, botVars>>

\* main(): config = { ...defaultConfig, ...existingConfig } when config.json
\* exists and parses, defaultConfig otherwise.
LoadConfig ==
  /\ ConfiguratorAlive /\ configPc = "load"
  /\ config' = IF configJson.state = "json"
               THEN Spread(defaultConfig, configJson.value)
               ELSE defaultConfig
  /\ configPc' = Keys[1]
  /\ UNCHANGED <<installArg, configJson, entry, asked, observed, configExit,
                 configJson0, updVars, botVars>>

\* A question of promptInput is open for a key of the config object.
Asking == ConfiguratorAlive /\ \E k \in 1..Len(Keys) : configPc = Keys[k]

\* promptInput: if (field && !validateInput(value, field)).
Invalid(value, field) == field # "null" /\ ~validateInput(value, field)

\* promptInput: the answer is valid, or the field is not validated:
\* resolve(value), and main() stores it under the key.
PromptResolve ==
  /\ Asking
  /\ \E line \in Lines :
       LET value == OrDefault(line, config[configPc])
       IN /\ ~Invalid(value, FieldOf(configPc))
          /\ entry' = line
          /\ config' = [config EXCEPT ![configPc] = value]
  /\ asked' = asked + 1
  /\ configPc' = AfterKey(configPc)
  /\ UNCHANGED <<installArg, configJson, observed, configExit, configJson0,
                 updVars, botVars>>

\* promptInput: the answer is not valid: promptInput is called again with
\* the same prompt, default and field.
PromptAgain ==
  /\ Asking /\ asked < MaxAsked
  /\ \E line \in Lines :
       /\ Invalid(OrDefault(line, config[configPc]), FieldOf(configPc))
       /\ entry' = line
  /\ asked' = asked + 1
  /\ UNCHANGED <<configPc, installArg, config, configJson, observed,
                 configExit, configJson0, updVars, botVars>>

\* main(): config.aviso, config.debug and config.enablePanel are set to
\* false, then mkdir and writeFile(CONFIG_FILE, JSON.stringify(config)).
WriteConfig ==
  /\ ConfiguratorAlive /\ configPc = "write"
  /\ config' = [config EXCEPT !.aviso = FALSE, !.debug = FALSE,
                              !.enablePanel = FALSE]
  /\ configJson' = [state |-> "json", value |-> config']
  /\ configPc' = "confirm"
  /\ UNCHANGED <<installArg, entry, asked, observed, configExit, configJson0,
                 updVars, botVars>>

\* main(): mkdir or writeFile throws; the inner catch prints the error and
\* main() goes on to rl.close().
WriteFails ==
  /\ ConfiguratorAlive /\ configPc = "write"
  /\ config' = [config EXCEPT !.aviso = FALSE, !.debug = FALSE,
                              !.enablePanel = FALSE]
  /\ observed' = observed \cup {"write failed"}
  /\ configPc' = "end"
  /\ UNCHANGED <<installArg, configJson, entry, asked, configExit,
                 configJson0, updVars, botVars>>

\* The lines the operator types at the yes/no question.
ConfirmLines == { <<>>, <<"S">>, <<"n">>, <<" ", "y", " ">> }

\* String.prototype.toLowerCase.
ToLowerCase(s) == [i \in 1..Len(s) |-> IF s[i] = "S" THEN "s" ELSE s[i]]

\* confirm(rl, prompt, defaultValue).
confirm(input, defaultValue) ==
  LET response == ToLowerCase(OrDefault(input, Str(defaultValue)).text)
  IN response \in { <<"s">>, <<"s", "i", "m">>, <<"y">>, <<"y", "e", "s">> }

\* main(): installNow; installDependencies() starts npm install, or the
\* hint is printed.
ConfirmInstall ==
  /\ ConfiguratorAlive /\ configPc = "confirm"
  /\ \E line \in ConfirmLines :
       /\ entry' = line
       /\ configPc' = IF confirm(line, <<"s">>) THEN "npm install" ELSE "end"
  /\ UNCHANGED <<installArg, config, configJson, asked, observed, configExit,
                 configJson0, updVars, botVars>>

\* installDependencies: the callback of exec gets no error: installFFmpeg().
NpmInstallOk ==
  /\ ConfiguratorAlive /\ configPc = "npm install"
  /\ observed' = observed \cup {"npm install ok"}
  /\ configPc' = "ffmpeg"
  /\ UNCHANGED <<installArg, config, configJson, entry, asked, configExit,
                 configJson0, updVars, botVars>>

\* installDependencies: the callback of exec gets an error: the catch calls
\* process.exit(1).
NpmInstallFailed ==
  /\ ConfiguratorAlive /\ configPc = "npm install"
  /\ observed' = observed \cup {"npm install failed"}
  /\ configPc' = "exited" /\ configExit' = "1"
  /\ UNCHANGED <<installArg, config, configJson, entry, asked, configJson0,
                 updVars, botVars>>

\* installFFmpeg has returned: process.exit(0) with --install, the closing
\* lines of main() without.
AfterInstall ==
  /\ configPc' = IF installArg THEN "exited" ELSE "end"
  /\ configExit' = IF installArg THEN "0" ELSE configExit

\* An installFFmpeg whose failure ends the configurator with status 1.
FFmpegFailedFatal ==
  /\ ConfiguratorAlive /\ configPc = "ffmpeg"
  /\ observed' = observed \cup {"ffmpeg failed"}
  /\ configPc' = "exited" /\ configExit' = "1"
  /\ UNCHANGED <<installArg, config, configJson, entry, asked, configJson0,
                 updVars, botVars>>

\* installFFmpeg: no package manager for the platform: return.
FFmpegSkipped ==
  /\ ConfiguratorAlive /\ configPc = "ffmpeg"
  /\ observed' = observed \cup {"ffmpeg skipped"}
  /\ AfterInstall
  /\ UNCHANGED <<installArg, config, configJson, entry, asked, configJson0,
                 updVars, botVars>>

\* installFFmpeg: the install command ends without error; the two version
\* checks only print.
FFmpegInstalled ==
  /\ ConfiguratorAlive /\ configPc = "ffmpeg"
  /\ observed' = observed \cup {"ffmpeg installed"}
  /\ AfterInstall
  /\ UNCHANGED <<installArg, config, configJson, entry, asked, configJson0,
                 updVars, botVars>>

\* installFFmpeg: the install command fails; the catch prints the error.
FFmpegFailed ==
  /\ ConfiguratorAlive /\ configPc = "ffmpeg"
  /\ observed' = observed \cup {"ffmpeg failed"}
  /\ AfterInstall
  /\ UNCHANGED <<installArg, config, configJson, entry, asked, configJson0,
                 updVars, botVars>>

\* main() returns after rl.close(): nothing is left to wait for and the
\* process ends with status 0.
MainReturns ==
  /\ ConfiguratorAlive /\ configPc = "end"
  /\ configPc' = "exited" /\ configExit' = "0"
  /\ UNCHANGED <<installArg, config, configJson, entry, asked, observed,
                 configJson0, updVars, botVars>>

\* SIGINT or SIGTERM: shutdown(), process.exit(0).
ConfigShutdown ==
  /\ ConfiguratorAlive
  /\ observed' = observed \cup {"signal"}
  /\ configPc' = "exited" /\ configExit' = "0"
  /\ UNCHANGED <<installArg, config, configJson, entry, asked, configJson0,
                 updVars, botVars>>

NextCfg ==
  \/ ConfigStart \/ NodeFound \/ NodeMissing \/ NpmFound \/ NpmMissing
  \/ LoadConfig \/ PromptResolve \/ PromptAgain \/ WriteConfig \/ WriteFails
  \/ ConfirmInstall \/ NpmInstallOk \/ NpmInstallFailed
  \/ FFmpegSkipped \/ FFmpegInstalled \/ FFmpegFailed
  \/ MainReturns \/ ConfigShutdown

SpecCfg == InitCfg /\ [][NextCfg]_vars

----------------------------------------------------------------------------
(* The configurator's questions and its --install mode *)

\* A prefix of exactly one character.
OneCharacter(v) == v.kind = "string" /\ Len(v.text) = 1

\* An owner number of 10 to 15 digits.
TenToFifteenDigits(v) ==
  /\ Len(v.text) \in 10..15
  /\ \A i \in 1..Len(v.text) :
       v.text[i] \in {"0", "1", "2", "3", "4", "5", "6", "7", "8", "9"}

\* What the claim asks of the value stored under a key.
Acceptable(key, v) ==
  CASE key = "numerodono" -> TenToFifteenDigits(v)
    [] key = "prefixo" -> OneCharacter(v)
    [] OTHER -> TRUE

\* The positions of main() after the question for the owner number, and
\* after the one for the prefix, has resolved.
NumberAsked == {"nomebot", "prefixo", "write", "confirm", "end"}
PrefixAsked == {"write", "confirm", "end"}

\* C35: a question for the owner number or the prefix resolves only with a
\* value of 10 to 15 digits, or of one character: an answer, or an empty
\* answer's default, that is not such a value leaves main() at the same
\* question with the same default and the config object unchanged, and every
\* config.json written holds a valid owner number and a valid prefix.
C35_OnlyValidResolved ==
  /\ [][(Asking /\ asked' = asked + 1
           /\ ~Acceptable(configPc, OrDefault(entry', config[configPc])))
          => (configPc' = configPc /\ config' = config
              /\ configJson' = configJson)]_vars
  /\ [][(Asking /\ configPc' # configPc /\ configExit' = "none")
          => (/\ Acceptable(configPc, config'[configPc])
              /\ config'[configPc] = OrDefault(entry', config[configPc]))]_vars
  /\ [](/\ configPc \in NumberAsked => TenToFifteenDigits(config.numerodono)
        /\ configPc \in PrefixAsked => OneCharacter(config.prefixo)
        /\ configJson # configJson0 =>
             /\ TenToFifteenDigits(configJson.value.numerodono)
             /\ OneCharacter(configJson.value.prefixo))

\* config.json held an invalid owner number, the empty answer that fell back
\* on it was asked again, and the file now written holds a valid one.
C35_Witness ==
  /\ configJson0.state = "json"
  /\ ~TenToFifteenDigits(configJson0.value.numerodono)
  /\ configJson # configJson0
  /\ asked > Len(Keys)
  /\ TenToFifteenDigits(configJson.value.numerodono)

\* What ends an --install run with status 1.
FatalEvents == {"node missing", "npm missing", "npm install failed"}

FFmpegEvents == {"ffmpeg skipped", "ffmpeg installed", "ffmpeg failed"}

\* C36: with --install no question is asked and config.json is left as it
\* was; the configurator exits with status 1 exactly when Node.js or npm is
\* missing or npm install fails, and otherwise with status 0 - after the
\* requirements were checked, npm install succeeded and installFFmpeg
\* returned, whatever its outcome - unless a signal ended it first.
C36_InstallMode ==
  installArg =>
    /\ asked = 0 /\ entry = <<>>
    /\ configJson = configJson0
    /\ configPc \notin {"load", "write", "confirm", "end"}
    /\ configExit # "none" =>
         (configExit = "1" <=> observed \cap FatalEvents # {})
    /\ (configExit = "0" /\ "signal" \notin observed) =>
         /\ {"node found", "npm found", "npm install ok"} \subseteq observed
         /\ observed \cap FFmpegEvents # {}

\* An --install run has ended with status 0 after the FFmpeg installation
\* failed.
C36_Witness ==
  /\ installArg /\ configExit = "0"
  /\ "ffmpeg failed" \in observed
  /\ configJson0.state = "absent"
====
